---- MODULE Spec2Model ----
(***************************************************************************)
(* Inventory projection layer of the Unleash MCP server: the module-level  *)
(* caches of src/resources/unleashResources.ts (cachedProjects and         *)
(* cachedFeatureFlags), the read handlers readProjectsResource and         *)
(* readFeatureFlagsResource with their sort and pagination projector, the  *)
(* option parsers of the resource URI codec, and the list operations of    *)
(* UnleashClient that feed the caches.                                      *)
(*                                                                         *)
(* Encoding conventions.                                                   *)
(*   - An optional JavaScript value (undefined / null / NaN versus a       *)
(*     value) is a sequence of length 0 or 1: <<>> is "absent", <<x>> is x.*)
(*   - A query-string value is a sequence of one-character strings, so     *)
(*     that Number.parseInt and toLowerCase are computed, not assumed.     *)
(*   - Instants are milliseconds.  Date.now() is read from `clock`.        *)
(***************************************************************************)
EXTENDS Integers, Sequences, FiniteSets, TLC

\* ------------------------------------------------------------------ bounds
MaxClock == 60000
MaxChanges == 1
MaxItems == 3
MaxIdLen == 2
MaxPoints == 8
\* the HTTP requests the client may issue in one behaviour
MaxHttp == 2

\* ------------------------------------------------------- program constants
PROJECTS_CACHE_TTL_MS == 60000
FEATURE_FLAGS_CACHE_TTL_MS == 60000
DEFAULT_PROJECT_PAGE_SIZE == 20
DEFAULT_FLAG_PAGE_SIZE == 50

\* --------------------------------------------------------------- optionals
Undefined == <<>>
Some(x) == <<x>>
IsSet(m) == m # <<>>
Val(m) == m[1]
\* a ?? b
Coalesce(m, d) == IF IsSet(m) THEN Val(m) ELSE d

Max(a, b) == IF a >= b THEN a ELSE b
Min(a, b) == IF a <= b THEN a ELSE b

\* ------------------------------------------------- strings of characters
Digits == <<"0", "1", "2", "3", "4", "5", "6", "7", "8", "9">>
IsDigit(c) == \E i \in 1..10 : Digits[i] = c
DigitVal(c) == (CHOOSE i \in 1..10 : Digits[i] = c) - 1
IsSpace(c) == c = " "

RECURSIVE SkipSpaces(_)
SkipSpaces(s) ==
  IF s # <<>> /\ IsSpace(Head(s)) THEN SkipSpaces(Tail(s)) ELSE s

\* value of the longest prefix of decimal digits of s, starting from acc
RECURSIVE DigitPrefixValue(_, _)
DigitPrefixValue(s, acc) ==
  IF s # <<>> /\ IsDigit(Head(s))
    THEN DigitPrefixValue(Tail(s), acc * 10 + DigitVal(Head(s)))
    ELSE acc

\* Number.parseInt(value, 10): leading white space is skipped, an optional
\* sign is read, then the longest run of decimal digits; anything after it
\* is ignored; no digit at all gives NaN (absent).
ParseInt(value) ==
  LET t == SkipSpaces(value)
      neg == t # <<>> /\ Head(t) = "-"
      u == IF t # <<>> /\ Head(t) \in {"-", "+"} THEN Tail(t) ELSE t
  IN IF u = <<>> \/ ~IsDigit(Head(u))
       THEN Undefined
       ELSE Some((IF neg THEN -1 ELSE 1) * DigitPrefixValue(u, 0))

\* String(n) for an integer n
RECURSIVE NatToString(_)
NatToString(n) ==
  IF n < 10 THEN <<Digits[n + 1]>>
  ELSE NatToString(n \div 10) \o <<Digits[(n % 10) + 1]>>

NumberToString(n) == IF n < 0 THEN <<"-">> \o NatToString(-n) ELSE NatToString(n)

\* String.prototype.toLowerCase on the letters that occur in the model
LowerChar(c) ==
  CASE c = "A" -> "a" [] c = "S" -> "s" [] c = "C" -> "c"
    [] c = "D" -> "d" [] c = "E" -> "e" [] OTHER -> c

ToLowerCase(s) == [i \in 1..Len(s) |-> LowerChar(s[i])]

\* ------------------------------------------------------------ option parse
\* parsePositiveInteger(value)
ParsePositiveIntegerBug(value) ==
  LET parsed == ParseInt(value)
  IN IF IsSet(parsed) /\ Val(parsed) >= 0 THEN parsed ELSE Undefined

ParsePositiveInteger(value) ==
  LET parsed == ParseInt(value)
  IN IF IsSet(parsed) /\ Val(parsed) > 0 THEN parsed ELSE Undefined

\* parseNonNegativeInteger(value)
ParseNonNegativeIntegerStrict(value) ==
  LET parsed == ParseInt(value)
  IN IF IsSet(parsed) /\ Val(parsed) > 0 THEN parsed ELSE Undefined

ParseNonNegativeInteger(value) ==
  LET parsed == ParseInt(value)
  IN IF IsSet(parsed) /\ Val(parsed) >= 0 THEN parsed ELSE Undefined

\* normalizeOrder(value): value is null (absent) or a string
NormalizeOrder(value) ==
  IF ~IsSet(value) \/ Val(value) = <<>> THEN Undefined
  ELSE LET lower == ToLowerCase(Val(value))
       IN IF lower = <<"a", "s", "c">> THEN Some("asc")
          ELSE IF lower = <<"d", "e", "s", "c">> THEN Some("desc")
          ELSE Undefined

\* A query is what URLSearchParams.get returns for the three parameters:
\* [limit, order, offset], each absent (null) or a string.
\* "limitParam ? parse(limitParam) : undefined": null and "" are falsy.
Truthy(param) == IsSet(param) /\ Val(param) # <<>>

\* parseProjectsResourceOptions / parseFeatureFlagsResourceOptions on the
\* query part of a URI of the matching family
ParseProjectsResourceOptions(query) ==
  [limit  |-> IF Truthy(query.limit) THEN ParsePositiveInteger(Val(query.limit))
              ELSE Undefined,
   order  |-> NormalizeOrder(query.order),
   offset |-> IF Truthy(query.offset) THEN ParseNonNegativeInteger(Val(query.offset))
              ELSE Undefined]

ParseFeatureFlagsResourceOptions(query) ==
  [limit  |-> IF Truthy(query.limit) THEN ParsePositiveInteger(Val(query.limit))
              ELSE Undefined,
   order  |-> IF Truthy(query.order) THEN NormalizeOrder(query.order) ELSE Undefined,
   offset |-> IF Truthy(query.offset) THEN ParseNonNegativeInteger(Val(query.offset))
              ELSE Undefined]

\* --------------------------------------------------------- resource URIs
\* A URI, like every string the codec takes apart, is a sequence of
\* one-character strings.
Scheme == <<"u", "n", "l", "e", "a", "s", "h", ":", "/", "/">>
PROJECTS_RESOURCE_URI == Scheme \o <<"p", "r", "o", "j", "e", "c", "t", "s">>
FeatureFlagsSegment ==
  <<"/", "f", "e", "a", "t", "u", "r", "e", "-", "f", "l", "a", "g", "s">>

LimitName == <<"l", "i", "m", "i", "t">>
OrderName == <<"o", "r", "d", "e", "r">>
OffsetName == <<"o", "f", "f", "s", "e", "t">>

\* String.prototype.startsWith
StartsWith(s, prefix) ==
  Len(s) >= Len(prefix) /\ SubSeq(s, 1, Len(prefix)) = prefix

\* String.prototype.indexOf for one character, as a position from 1; 0 when
\* the character does not occur (the code's -1)
IndexOf(s, c) ==
  IF \E i \in 1..Len(s) : s[i] = c
    THEN CHOOSE i \in 1..Len(s) : s[i] = c /\ \A j \in 1..(i - 1) : s[j] # c
    ELSE 0

\* String.prototype.slice(n): the string without its first n characters
SliceFrom(s, n) == SubSeq(s, n + 1, Len(s))

\* uri.split('?')[0]
BeforeQuery(s) ==
  IF IndexOf(s, "?") = 0 THEN s ELSE SubSeq(s, 1, IndexOf(s, "?") - 1)

AlphaNumeric ==
  LET LowerLetters ==
        {"a", "b", "c", "d", "e", "f", "g", "h", "i", "j", "k", "l", "m",
         "n", "o", "p", "q", "r", "s", "t", "u", "v", "w", "x", "y", "z"}
      UpperLetters ==
        {"A", "B", "C", "D", "E", "F", "G", "H", "I", "J", "K", "L", "M",
         "N", "O", "P", "Q", "R", "S", "T", "U", "V", "W", "X", "Y", "Z"}
  IN LowerLetters \cup UpperLetters \cup {Digits[i] : i \in 1..10}

\* The UTF-8 bytes of the characters the model's strings are made of that a
\* percent-escape can stand for, each byte as its two upper-case hex digits.
\* "U+00E9" names the one character outside ASCII.
CodedChars ==
  {" ", "\n", "#", "%", "&", "+", "/", ":", "=", "?", "1", "P", "a", "b", "p",
   "U+00E9"}

Utf8(c) ==
  CASE c = " " -> <<<<"2", "0">>>>
    [] c = "\n" -> <<<<"0", "A">>>>
    [] c = "#" -> <<<<"2", "3">>>>
    [] c = "%" -> <<<<"2", "5">>>>
    [] c = "&" -> <<<<"2", "6">>>>
    [] c = "+" -> <<<<"2", "B">>>>
    [] c = "/" -> <<<<"2", "F">>>>
    [] c = ":" -> <<<<"3", "A">>>>
    [] c = "=" -> <<<<"3", "D">>>>
    [] c = "?" -> <<<<"3", "F">>>>
    [] c = "1" -> <<<<"3", "1">>>>
    [] c = "P" -> <<<<"5", "0">>>>
    [] c = "a" -> <<<<"6", "1">>>>
    [] c = "b" -> <<<<"6", "2">>>>
    [] c = "p" -> <<<<"7", "0">>>>
    [] c = "U+00E9" -> <<<<"C", "3">>, <<"A", "9">>>>

\* the percent-escapes of a character: %XX for each of its bytes
RECURSIVE Escapes(_)
Escapes(bytes) ==
  IF bytes = <<>> THEN <<>>
  ELSE <<"%">> \o Head(bytes) \o Escapes(Tail(bytes))

PercentEncode(c) == Escapes(Utf8(c))

\* hex digits are read in either case
UpperHex(c) ==
  CASE c = "a" -> "A" [] c = "b" -> "B" [] c = "c" -> "C"
    [] c = "d" -> "D" [] c = "e" -> "E" [] c = "f" -> "F"
    [] OTHER -> c

\* s starts with escapes (hex digits in either case) that spell e
StartsWithEscapes(s, e) ==
  /\ Len(s) >= Len(e)
  /\ \A i \in 1..Len(e) :
       IF i % 3 = 1 THEN s[i] = "%" ELSE UpperHex(s[i]) = e[i]

\* the character the escapes at the start of s stand for, if they stand for
\* one
EscapedChar(s) ==
  IF \E c \in CodedChars : StartsWithEscapes(s, PercentEncode(c))
    THEN Some(CHOOSE c \in CodedChars : StartsWithEscapes(s, PercentEncode(c)))
    ELSE Undefined

\* encodeURIComponent: letters, digits and - _ . ! ~ * ' ( ) stay, every
\* other character becomes the escapes of its UTF-8 bytes
UriUnreserved == AlphaNumeric \cup {"-", "_", ".", "!", "~", "*", "'", "(", ")"}

\* encodeURI in its place: the reserved characters stay as well
RECURSIVE EncodeURI(_)
EncodeURI(s) ==
  IF s = <<>> THEN <<>>
  ELSE (IF Head(s) \in UriUnreserved
             \cup {";", "/", "?", ":", "@", "&", "=", "+", "$", ",", "#"}
          THEN <<Head(s)>> ELSE PercentEncode(Head(s)))
         \o EncodeURI(Tail(s))

RECURSIVE EncodeURIComponent(_)
EncodeURIComponent(s) ==
  IF s = <<>> THEN <<>>
  ELSE (IF Head(s) \in UriUnreserved THEN <<Head(s)>> ELSE PercentEncode(Head(s)))
         \o EncodeURIComponent(Tail(s))

\* decodeURIComponent: the decoded string, or absent when it throws
\* URIError (a % that does not start the escapes of a character)
RECURSIVE DecodeURIComponent(_)
DecodeURIComponent(s) ==
  IF s = <<>> THEN Some(<<>>)
  ELSE IF Head(s) # "%"
    THEN LET rest == DecodeURIComponent(Tail(s))
         IN IF IsSet(rest) THEN Some(<<Head(s)>> \o Val(rest)) ELSE Undefined
  ELSE LET c == EscapedChar(s)
       IN IF ~IsSet(c) THEN Undefined
          ELSE LET rest == DecodeURIComponent(SliceFrom(s, Len(PercentEncode(Val(c)))))
               IN IF IsSet(rest) THEN Some(<<Val(c)>> \o Val(rest)) ELSE Undefined

\* The application/x-www-form-urlencoded decoding URLSearchParams applies
\* to a name or a value: + is a space, the escapes of a character are the
\* character, any other % stays.
RECURSIVE FormDecode(_)
FormDecode(s) ==
  IF s = <<>> THEN <<>>
  ELSE IF Head(s) = "+" THEN <<" ">> \o FormDecode(Tail(s))
  ELSE IF Head(s) = "%" /\ IsSet(EscapedChar(s))
    THEN <<Val(EscapedChar(s))>>
           \o FormDecode(SliceFrom(s, Len(PercentEncode(Val(EscapedChar(s))))))
  ELSE <<Head(s)>> \o FormDecode(Tail(s))

\* and the encoding URLSearchParams.toString applies: letters, digits and
\* * - . _ stay, a space is +, every other character is escaped
FormSafe == AlphaNumeric \cup {"*", "-", ".", "_"}

RECURSIVE FormEncode(_)
FormEncode(s) ==
  IF s = <<>> THEN <<>>
  ELSE (IF Head(s) \in FormSafe THEN <<Head(s)>>
        ELSE IF Head(s) = " " THEN <<"+">>
        ELSE PercentEncode(Head(s))) \o FormEncode(Tail(s))

\* new URLSearchParams(query): the list of [name, value] pairs.  One
\* leading ? is dropped, the pairs are separated by &, empty pieces are
\* skipped, the first = of a piece ends the name.
FormPair(piece) ==
  LET eq == IndexOf(piece, "=")
  IN IF eq = 0 THEN [name |-> FormDecode(piece), value |-> <<>>]
     ELSE [name |-> FormDecode(SubSeq(piece, 1, eq - 1)),
           value |-> FormDecode(SliceFrom(piece, eq))]

RECURSIVE FormPairs(_)
FormPairs(q) ==
  IF q = <<>> THEN <<>>
  ELSE LET amp == IndexOf(q, "&")
           piece == IF amp = 0 THEN q ELSE SubSeq(q, 1, amp - 1)
           rest == IF amp = 0 THEN <<>> ELSE SliceFrom(q, amp)
       IN (IF piece = <<>> THEN <<>> ELSE <<FormPair(piece)>>) \o FormPairs(rest)

URLSearchParams(query) ==
  FormPairs(IF query # <<>> /\ Head(query) = "?" THEN Tail(query) ELSE query)

\* URLSearchParams.prototype.get: the value of the first pair of that name,
\* null (absent) when there is none
ParamsGet(params, name) ==
  IF \E i \in 1..Len(params) : params[i].name = name
    THEN Some(params[CHOOSE i \in 1..Len(params) :
                       /\ params[i].name = name
                       /\ \A j \in 1..(i - 1) : params[j].name # name].value)
    ELSE Undefined

\* URLSearchParams.prototype.toString
RECURSIVE ParamsToString(_)
ParamsToString(params) ==
  IF params = <<>> THEN <<>>
  ELSE FormEncode(Head(params).name) \o <<"=">> \o FormEncode(Head(params).value)
         \o (IF Tail(params) = <<>> THEN <<>>
             ELSE <<"&">> \o ParamsToString(Tail(params)))

\* the three parameters the option parsers read from the query of a URI
\* ("uri.slice(queryIndex + 1)", "params.get"); the URI has a ?
QueryParams(uri) ==
  LET params == URLSearchParams(SliceFrom(uri, IndexOf(uri, "?")))
  IN [limit |-> ParamsGet(params, LimitName),
      order |-> ParamsGet(params, OrderName),
      offset |-> ParamsGet(params, OffsetName)]

\* isProjectsUri
IsProjectsUri(uri) ==
  uri = PROJECTS_RESOURCE_URI \/ StartsWith(uri, PROJECTS_RESOURCE_URI \o <<"?">>)

\* The match of /^unleash:\/\/projects\/([^/]+)\/feature-flags$/ or, with
\* withQuery, of /^unleash:\/\/projects\/[^/]+\/feature-flags(?:\?.*)?$/:
\* the segment "[^/]+" matched, absent when the URI does not match.  The
\* segment cannot hold a slash, so it ends at the first slash after the
\* prefix.
FeatureFlagsMatch(uri, withQuery) ==
  LET prefix == PROJECTS_RESOURCE_URI \o <<"/">>
      rest == SliceFrom(uri, Len(prefix))
      slash == IndexOf(rest, "/")
      tail == SliceFrom(rest, slash - 1)
      after == SliceFrom(tail, Len(FeatureFlagsSegment))
  IN IF /\ StartsWith(uri, prefix)
        /\ slash > 1
        /\ StartsWith(tail, FeatureFlagsSegment)
        /\ \/ after = <<>>
           \/ /\ withQuery
              /\ Head(after) = "?"
              /\ \A i \in 2..Len(after) : after[i] \notin {"\n", "\r"}  \* "." takes no line terminator
       THEN Some(SubSeq(rest, 1, slash - 1))
       ELSE Undefined

\* isFeatureFlagsUri
IsFeatureFlagsUri(uri) == IsSet(FeatureFlagsMatch(uri, TRUE))

\* extractProjectIdFromFeatureUri: the decoded segment, the segment as it
\* is when decoding throws, absent when the part before the first ? does
\* not match
ExtractProjectIdFromFeatureUri(uri) ==
  LET match == FeatureFlagsMatch(BeforeQuery(uri), FALSE)
  IN IF ~IsSet(match) THEN Undefined
     ELSE IF IsSet(DecodeURIComponent(Val(match)))
       THEN DecodeURIComponent(Val(match))
     ELSE match

\* parseProjectsResourceOptions / parseFeatureFlagsResourceOptions of a URI
NoOptions == [limit |-> Undefined, order |-> Undefined, offset |-> Undefined]

ParseProjectsResourceOptionsOfUri(uri) ==
  IF ~IsProjectsUri(uri) \/ IndexOf(uri, "?") = 0 THEN NoOptions
  ELSE ParseProjectsResourceOptions(QueryParams(uri))

ParseFeatureFlagsResourceOptionsOfUri(uri) ==
  IF ~IsFeatureFlagsUri(uri) \/ IndexOf(uri, "?") = 0 THEN NoOptions
  ELSE ParseFeatureFlagsResourceOptions(QueryParams(uri))

\* the characters of an order value
OrderChars(order) ==
  CASE order = "asc" -> <<"a", "s", "c">>
    [] order = "desc" -> <<"d", "e", "s", "c">>

\* the parameters buildProjectsUri / buildFeatureFlagsUri set: limit when
\* it is a number, order when it is truthy, offset when it is a number
BuildParams(options) ==
  (IF IsSet(options.limit)
     THEN <<[name |-> LimitName, value |-> NumberToString(Val(options.limit))]>>
     ELSE <<>>)
  \o (IF IsSet(options.order)
        THEN <<[name |-> OrderName, value |-> OrderChars(Val(options.order))]>>
        ELSE <<>>)
  \o (IF IsSet(options.offset)
        THEN <<[name |-> OffsetName, value |-> NumberToString(Val(options.offset))]>>
        ELSE <<>>)

\* query ? `${base}?${query}` : base
WithQuery(base, options) ==
  LET query == ParamsToString(BuildParams(options))
  IN IF query # <<>> THEN base \o <<"?">> \o query ELSE base

\* buildFeatureFlagsUri
BuildFeatureFlagsUri(projectId, options) ==
  WithQuery(PROJECTS_RESOURCE_URI \o <<"/">> \o EncodeURIComponent(projectId)
              \o FeatureFlagsSegment, options)

\* buildProjectsUri
BuildProjectsUri(options) == WithQuery(PROJECTS_RESOURCE_URI, options)

\* unleash://projects/{projectId}/feature-flags with a segment as written
FlagsUriOf(segment) ==
  PROJECTS_RESOURCE_URI \o <<"/">> \o segment \o FeatureFlagsSegment

\* ------------------------------------------------------------ collections
\* new Date(0).toISOString()
EPOCH_ISO == "1970-01-01T00:00:00.000Z"

\* Date.parse on the date strings that occur in the model (milliseconds
\* since the epoch); every other string is not a date and gives NaN.
DateParse(s) ==
  CASE s = EPOCH_ISO -> Some(0)
    [] s = "1970-01-02" -> Some(86400000)
    [] s = "1970-01-03" -> Some(172800000)
    [] OTHER -> Undefined

\* "x.createdAt ? Date.parse(x.createdAt) : Number.NaN" followed by
\* Number.isFinite: createdAt is absent, "" (falsy) or a string.
ParsedDate(createdAt) ==
  IF IsSet(createdAt) /\ Val(createdAt) # "" THEN DateParse(Val(createdAt))
  ELSE Undefined

\* String.prototype.localeCompare on the names that occur in the model:
\* the collation rank of each name, compared.
NameRank(n) ==
  CASE n = "" -> 0
    [] n = "a" -> 1
    [] n = "b" -> 2
    [] n = "m" -> 3
    [] n = "unknown-project" -> 4
    [] n = "Unnamed project" -> 5
    [] n = "z" -> 6

LocaleCompare(a, b) ==
  IF NameRank(a) < NameRank(b) THEN -1
  ELSE IF NameRank(a) > NameRank(b) THEN 1 ELSE 0

\* The comparator of sortProjects, as (a, b) => number
CompareProjectsBug(order, a, b) ==
  LET direction == IF order = "asc" THEN 1 ELSE -1
      dateA == ParsedDate(a.createdAt)
      dateB == ParsedDate(b.createdAt)
      hasDateA == IsSet(dateA)
      hasDateB == IsSet(dateB)
  IN IF hasDateA /\ ~hasDateB THEN -1 * direction
     ELSE IF ~hasDateA /\ hasDateB THEN 1 * direction
     ELSE IF hasDateA /\ hasDateB
       THEN IF Val(dateA) = Val(dateB)
              THEN LocaleCompare(a.name, b.name) * direction
              ELSE (Val(dateA) - Val(dateB)) * direction
     ELSE LocaleCompare(a.name, b.name) * direction

CompareProjectsNoTieBreak(order, a, b) ==
  LET direction == IF order = "asc" THEN 1 ELSE -1
      dateA == ParsedDate(a.createdAt)
      dateB == ParsedDate(b.createdAt)
      hasDateA == IsSet(dateA)
      hasDateB == IsSet(dateB)
  IN IF hasDateA /\ ~hasDateB THEN -1
     ELSE IF ~hasDateA /\ hasDateB THEN 1
     ELSE IF hasDateA /\ hasDateB
       THEN (Val(dateA) - Val(dateB)) * direction
     ELSE LocaleCompare(a.name, b.name) * direction

CompareProjects(order, a, b) ==
  LET direction == IF order = "asc" THEN 1 ELSE -1
      dateA == ParsedDate(a.createdAt)
      dateB == ParsedDate(b.createdAt)
      hasDateA == IsSet(dateA)
      hasDateB == IsSet(dateB)
  IN IF hasDateA /\ ~hasDateB THEN -1
     ELSE IF ~hasDateA /\ hasDateB THEN 1
     ELSE IF hasDateA /\ hasDateB
       THEN IF Val(dateA) = Val(dateB)
              THEN LocaleCompare(a.name, b.name) * direction
              ELSE (Val(dateA) - Val(dateB)) * direction
     ELSE LocaleCompare(a.name, b.name) * direction

\* The comparator of sortFeatureFlags ("a.name ?? ''": names are strings)
CompareFlagsAscending(order, a, b) ==
  LET nameA == a.name
      nameB == b.name
  IN IF nameA = nameB
       THEN LET dateA == ParsedDate(a.createdAt)
                dateB == ParsedDate(b.createdAt)
            IN IF IsSet(dateA) /\ IsSet(dateB)
                 THEN Val(dateA) - Val(dateB)
                 ELSE 0
       ELSE LocaleCompare(nameA, nameB)

CompareFlagsDatesAscending(order, a, b) ==
  LET direction == IF order = "asc" THEN 1 ELSE -1
      nameA == a.name
      nameB == b.name
  IN IF nameA = nameB
       THEN LET dateA == ParsedDate(a.createdAt)
                dateB == ParsedDate(b.createdAt)
            IN IF IsSet(dateA) /\ IsSet(dateB)
                 THEN Val(dateA) - Val(dateB)
                 ELSE 0
       ELSE LocaleCompare(nameA, nameB) * direction

CompareFlags(order, a, b) ==
  LET direction == IF order = "asc" THEN 1 ELSE -1
      nameA == a.name
      nameB == b.name
  IN IF nameA = nameB
       THEN LET dateA == ParsedDate(a.createdAt)
                dateB == ParsedDate(b.createdAt)
            IN IF IsSet(dateA) /\ IsSet(dateB)
                 THEN (Val(dateA) - Val(dateB)) * direction
                 ELSE 0
       ELSE LocaleCompare(nameA, nameB) * direction

Compare(kind, order, a, b) ==
  IF kind = "projects" THEN CompareProjects(order, a, b)
  ELSE CompareFlags(order, a, b)

\* Array.prototype.sort as Node's engine runs it on arrays shorter than 64
\* elements: the leading run is found (and reversed when strictly
\* descending), then the rest is placed by binary insertion.
Reverse(s) == [i \in 1..Len(s) |-> s[Len(s) + 1 - i]]

\* length of the leading run of w (Len(w) >= 2), given its direction
RECURSIVE RunLength(_, _, _, _, _)
RunLength(kind, order, w, idx, descending) ==
  IF idx > Len(w) THEN idx - 1
  ELSE LET c == Compare(kind, order, w[idx], w[idx - 1])
       IN IF (descending /\ c >= 0) \/ (~descending /\ c < 0) THEN idx - 1
          ELSE RunLength(kind, order, w, idx + 1, descending)

\* binary search of the insertion point of pivot in w[left+1 .. right]
\* (0-based half-open [left, right) as in the engine)
RECURSIVE InsertionPoint(_, _, _, _, _, _)
InsertionPoint(kind, order, w, pivot, left, right) ==
  IF left >= right THEN left
  ELSE LET mid == left + ((right - left) \div 2)
       IN IF Compare(kind, order, pivot, w[mid + 1]) < 0
            THEN InsertionPoint(kind, order, w, pivot, left, mid)
            ELSE InsertionPoint(kind, order, w, pivot, mid + 1, right)

RECURSIVE BinaryInsertionSort(_, _, _, _)
BinaryInsertionSort(kind, order, w, start) ==
  IF start >= Len(w) THEN w
  ELSE LET pivot == w[start + 1]
           at == InsertionPoint(kind, order, w, pivot, 0, start)
           placed == SubSeq(w, 1, at) \o <<pivot>> \o SubSeq(w, at + 1, start)
                       \o SubSeq(w, start + 2, Len(w))
       IN BinaryInsertionSort(kind, order, placed, start + 1)

ArraySort(kind, order, items) ==
  IF Len(items) < 2 THEN items
  ELSE LET descending == Compare(kind, order, items[2], items[1]) < 0
           run == RunLength(kind, order, items, 3, descending)
           w == IF descending
                  THEN Reverse(SubSeq(items, 1, run)) \o SubSeq(items, run + 1, Len(items))
                  ELSE items
       IN BinaryInsertionSort(kind, order, w, run)

\* sortProjects / sortFeatureFlags: a sorted copy, the argument is not changed
SortProjects(projects, order) == ArraySort("projects", order, projects)
SortFeatureFlags(flags, order) == ArraySort("flags", order, flags)

\* Array.prototype.slice(start, end) for 0 <= start; end absent or >= 0
ArraySliceInclusive(items, start, end) ==
  LET from == Min(start, Len(items))
      to == IF IsSet(end) THEN Min(Val(end) + 1, Len(items)) ELSE Len(items)
  IN SubSeq(items, from + 1, to)

ArraySlice(items, start, end) ==
  LET from == Min(start, Len(items))
      to == IF IsSet(end) THEN Min(Val(end), Len(items)) ELSE Len(items)
  IN SubSeq(items, from + 1, to)

\* applyPagination(items, limit, offset); limit and offset are absent or
\* integers (Math.floor of an integer is the integer).
ApplyPaginationLastPage(items, limit, offset) ==
  LET safeLimit == IF IsSet(limit) THEN Some(Max(0, Val(limit))) ELSE Undefined
      safeOffset == IF IsSet(offset) THEN Max(0, Val(offset)) ELSE 0
      start == safeOffset
      end == IF IsSet(safeLimit) THEN Some(start + Val(safeLimit)) ELSE Undefined
  IN [slice |-> ArraySlice(items, start, end),
      nextOffset |-> IF IsSet(safeLimit) /\ start + Val(safeLimit) <= Len(items)
                       THEN Some(start + Val(safeLimit)) ELSE Undefined]

ApplyPaginationSkips(items, limit, offset) ==
  LET safeLimit == IF IsSet(limit) THEN Some(Max(0, Val(limit))) ELSE Undefined
      safeOffset == IF IsSet(offset) THEN Max(0, Val(offset)) ELSE 0
      start == safeOffset
      end == IF IsSet(safeLimit) THEN Some(start + Val(safeLimit)) ELSE Undefined
  IN [slice |-> ArraySlice(items, start, end),
      nextOffset |-> IF IsSet(safeLimit) /\ start + Val(safeLimit) + 1 < Len(items)
                       THEN Some(start + Val(safeLimit) + 1) ELSE Undefined]

ApplyPagination(items, limit, offset) ==
  LET safeLimit == IF IsSet(limit) THEN Some(Max(0, Val(limit))) ELSE Undefined
      safeOffset == IF IsSet(offset) THEN Max(0, Val(offset)) ELSE 0
      start == safeOffset
      end == IF IsSet(safeLimit) THEN Some(start + Val(safeLimit)) ELSE Undefined
  IN [slice |-> ArraySlice(items, start, end),
      nextOffset |-> IF IsSet(safeLimit) /\ start + Val(safeLimit) < Len(items)
                       THEN Some(start + Val(safeLimit)) ELSE Undefined]

\* --------------------------------------------------------- remote payloads
\* UnleashClient.listProjects on a successful response body: the mapping of
\* the "projects" array (ids, names and creation dates defaulted).
MapProject(project) ==
  LET id == IF IsSet(project.id) THEN Val(project.id)
            ELSE Coalesce(project.name, "unknown-project")
  IN [id |-> id,
      name |-> IF IsSet(project.name) THEN Val(project.name)
               ELSE Coalesce(project.id, "Unnamed project"),
      createdAt |-> Some(Coalesce(project.createdAt, EPOCH_ISO))]

ListProjectsResult(body) == [i \in 1..Len(body) |-> MapProject(body[i])]

\* UnleashClient.fetchProjectFeatureFlags on a successful response body:
\* features without a (non-empty) name are dropped, createdAt is copied.
RECURSIVE ListFeatureFlagsResult(_)
ListFeatureFlagsResult(body) ==
  IF body = <<>> THEN <<>>
  ELSE LET f == Head(body)
       IN (IF IsSet(f.name) /\ Val(f.name) # ""
             THEN <<[name |-> Val(f.name), createdAt |-> f.createdAt]>>
             ELSE <<>>) \o ListFeatureFlagsResult(Tail(body))

\* -------------------------------------------------------------- classifiers
\* A number is finite, NaN, Infinity or -Infinity.  A finite score is held
\* in hundred-thousandths (0.7 is 70000), a finite point total as it is.
ScoreScale == 100000

Finite(n) == [kind |-> "finite", val |-> n]
NaN == [kind |-> "NaN", val |-> 0]
PlusInfinity == [kind |-> "Infinity", val |-> 0]
MinusInfinity == [kind |-> "-Infinity", val |-> 0]

\* "x >= t" for a number x and a finite t: false for NaN
AtLeast(x, t) ==
  CASE x.kind = "finite" -> x.val >= t
    [] x.kind = "Infinity" -> TRUE
    [] OTHER -> FALSE

CONFIDENCE_THRESHOLDS == [high |-> (7 * ScoreScale) \div 10, medium |-> (4 * ScoreScale) \div 10]

\* calculateConfidenceLevel(score)
CalculateConfidenceLevelStrict(score) ==
  IF AtLeast(score, CONFIDENCE_THRESHOLDS.high + 1) THEN "high"
  ELSE IF AtLeast(score, CONFIDENCE_THRESHOLDS.medium) THEN "medium"
  ELSE "low"

CalculateConfidenceLevel(score) ==
  IF AtLeast(score, CONFIDENCE_THRESHOLDS.high) THEN "high"
  ELSE IF AtLeast(score, CONFIDENCE_THRESHOLDS.medium) THEN "medium"
  ELSE "low"

\* determineRecommendation(confidenceLevel)
DetermineRecommendation(confidenceLevel) ==
  CASE confidenceLevel = "high" -> "use_existing"
    [] confidenceLevel = "medium" -> "ask_user"
    [] confidenceLevel = "low" -> "create_new"

\* createDetectionResult(candidate): the candidate is null (absent) or has
\* a score
CreateDetectionResult(candidate) ==
  IF ~IsSet(candidate)
    THEN [flagFound |-> FALSE, confidenceLevel |-> "low", recommendation |-> "create_new"]
    ELSE [flagFound |-> TRUE,
          confidenceLevel |-> CalculateConfidenceLevel(Val(candidate)),
          recommendation |-> DetermineRecommendation(CalculateConfidenceLevel(Val(candidate)))]

\* calculateRiskLevel(score)
CalculateRiskLevelLoose(score) ==
  IF AtLeast(score, 5) THEN "critical"
  ELSE IF AtLeast(score, 3) THEN "high"
  ELSE IF AtLeast(score, 1) THEN "medium"
  ELSE "low"

CalculateRiskLevel(score) ==
  IF AtLeast(score, 5) THEN "critical"
  ELSE IF AtLeast(score, 3) THEN "high"
  ELSE IF AtLeast(score, 2) THEN "medium"
  ELSE "low"

\* -------------------------------------------------------------------- tools
\* What a function call ends with: a returned value or a thrown error.
\* An error is of a class (ZodError, CustomError, Error, or a value that is
\* not an Error) and CustomError carries a code.
ZodError == [class |-> "ZodError", code |-> ""]
CustomError(code) == [class |-> "CustomError", code |-> code]
Error(message) == [class |-> "Error", code |-> message]

\* A CallToolResult: isError, structuredContent.success (structuredContent
\* may be absent) and structuredContent.error.code.
CallToolResult(isError, success, code) ==
  [isError |-> isError, success |-> success, code |-> code]
NoResult == CallToolResult(FALSE, Undefined, "")

Returned(result) ==
  [thrown |-> FALSE, result |-> result, error |-> [class |-> "", code |-> ""]]
Threw(error) == [thrown |-> TRUE, result |-> NoResult, error |-> error]

\* normalizeError: the code of the normalized error
NormalizeError(error) ==
  CASE error.class = "ZodError" -> "VALIDATION_ERROR"
    [] error.class = "CustomError" -> error.code
    [] OTHER -> "UNKNOWN_ERROR"

\* handleToolError: the error result of a tool
HandleToolError(error) ==
  CallToolResult(TRUE, Some(FALSE), NormalizeError(error))

\* try { ... } catch (error) { return handleToolError(context, error, name) }
\* around a tool's body and around the handler's dispatch.
TryCatchRethrows(outcome) == outcome

TryCatch(outcome) ==
  IF outcome.thrown THEN Returned(HandleToolError(outcome.error)) ELSE outcome

\* ensureProjectId: the provided id, else the default, else it throws
\* (the empty string is falsy); Undefined stands for the throw.
EnsureProjectId(providedProjectId, defaultProjectId) ==
  IF IsSet(providedProjectId) /\ Val(providedProjectId) # "" THEN providedProjectId
  ELSE IF IsSet(defaultProjectId) /\ Val(defaultProjectId) # "" THEN defaultProjectId
  ELSE Undefined

\* The arguments of a tools/call request: absent, or an object of which
\* these fields are read.
EmptyArgs ==
  [given |-> TRUE, projectId |-> Undefined, name |-> Undefined, type |-> Undefined,
   description |-> Undefined, flagName |-> Undefined, featureName |-> Undefined,
   environment |-> Undefined, rolloutPercentage |-> Undefined]
NoArgs == [EmptyArgs EXCEPT !.given = FALSE]

\* z.string().min(1)
NonEmptyString(x) == IsSet(x) /\ Val(x) # ""

\* schema.parse(args) of each tool: TRUE when the input is accepted
\* (evaluate_change parses "args || {}" and all of its fields are optional).
SchemaAccepts(tool, args) ==
  CASE tool = "create_flag" ->
         /\ args.given
         /\ NonEmptyString(args.name)
         /\ IsSet(args.type)
         /\ Val(args.type) \in {"release", "experiment", "operational",
                                 "kill-switch", "permission"}
         /\ NonEmptyString(args.description)
    [] tool = "evaluate_change" -> TRUE
    [] tool = "detect_flag" -> args.given /\ NonEmptyString(args.description)
    [] tool = "wrap_change" -> args.given /\ NonEmptyString(args.flagName)
    [] tool = "set_flag_rollout" ->
         /\ args.given
         /\ NonEmptyString(args.featureName)
         /\ NonEmptyString(args.environment)
         /\ IsSet(args.rolloutPercentage)
         /\ Val(args.rolloutPercentage) >= 0 /\ Val(args.rolloutPercentage) <= 100
    [] tool = "get_flag_state" -> args.given /\ NonEmptyString(args.featureName)
    [] OTHER -> FALSE

\* the UnleashClient operation a tool awaits, "" when it awaits none
ClientOperationOf(tool) ==
  CASE tool = "create_flag" -> "createFeatureFlag"
    [] tool = "set_flag_rollout" -> "setFlexibleRolloutStrategy"
    [] tool = "get_flag_state" -> "getFeature"
    [] OTHER -> ""

\* the tools the CallTool handler dispatches
HandlerTools == {"create_flag", "evaluate_change", "detect_flag", "wrap_change"}

\* A tool function up to its first await of the client: the schema is
\* parsed, the project id is resolved where the tool has one; a tool without
\* a client operation builds its result (wrapChange with
\* structuredContent.success: true, the others without structuredContent).
ToolBody(tool, args, defaultProject) ==
  IF ~SchemaAccepts(tool, args) THEN Threw(ZodError)
  ELSE IF ClientOperationOf(tool) # ""
            /\ ~IsSet(EnsureProjectId(args.projectId, defaultProject))
    THEN Threw(Error("Project ID is required"))
  ELSE Returned(IF tool = "wrap_change" THEN CallToolResult(FALSE, Some(TRUE), "")
                ELSE NoResult)

NoConfig == [dryRun |-> FALSE, defaultProject |-> Undefined]

NoCall ==
  [stage |-> "idle", via |-> "", tool |-> "", args |-> NoArgs,
   operation |-> "", dryRun |-> FALSE, response |-> Returned(NoResult),
   outcome |-> Returned(NoResult)]

\* no flags have been compared
NoCmp ==
  LET none == [name |-> "", createdAt |-> Undefined]
  IN [order |-> "asc", a |-> none, b |-> none, c |-> none, compared |-> FALSE,
      ab |-> 0, ba |-> 0, bc |-> 0, ac |-> 0]

\* no view function has been called
NoPaging ==
  [res |-> "none", stored |-> <<>>, data |-> <<>>, options |-> NoOptions,
   result |-> Undefined, followed |-> FALSE]

\* the outcome of the request as the caller of the handler sees it: the
\* tool's own try/catch, then the handler's when the handler dispatched it
Settle(via, outcome) ==
  IF via = "handler" THEN TryCatch(TryCatch(outcome)) ELSE TryCatch(outcome)

\* ------------------------------------------------------------------- state
Readers == {"r1", "r2"}
ProjectIds == {"p1", "P1"}
Keys == {"projects"} \cup ProjectIds

VARIABLES
  clock,               \* Date.now()
  cachedProjects,      \* null (absent) or [data, fetchedAt]
  cachedFeatureFlags,  \* the Map: project id -> absent or [data, fetchedAt]
  remoteProjects,      \* body the remote serves for GET /api/admin/projects
  remoteFlags,         \* per project, body served for its features
  remoteVer,           \* per key, number of changes of the remote collection
  pc,                  \* per request slot: idle, fetching, replied, done
  req,                 \* per slot: the resource request being served
  now,                 \* per slot: "const now = Date.now()" of the read
  reply,               \* per slot: the HTTP reply the awaited call got
  resp,                \* per slot: what the read handler returned or threw
  fetches,             \* per slot: remote list calls issued by this read
  peers,               \* per slot: slots in flight on the same key meanwhile
  after,               \* per slot: peers whose fetch resolved before this one
  base,                \* per slot: last resolved fetch of the key at read start
  lastFetch,           \* per key: result of the last fetch that resolved
  walk,                \* a client following nextOffset page by page
  uri,                 \* per slot: the URI of the request, as the handler got it
  codec,               \* a project id and options taken through the URI codec
  assess,              \* a candidate score and a risk score taken through the classifiers
  config,              \* the server configuration: dryRun and defaultProject
  call,                \* the tools/call request in progress and its result
  http,                \* the number of HTTP requests the client has issued
  paging,              \* a collection read through the view functions with options given as numbers
  cmp                  \* three flags taken through the comparator of sortFeatureFlags

vars == <<clock, cachedProjects, cachedFeatureFlags, remoteProjects, remoteFlags,
          remoteVer, pc, req, now, reply, resp, fetches, peers, after, base,
          lastFetch, walk, uri, codec, assess, config, call, http, paging, cmp>>

NoQuery == [limit |-> Undefined, order |-> Undefined, offset |-> Undefined]
NoRequest == [res |-> "none", pid |-> "", query |-> NoQuery]
NoWalk == [active |-> FALSE, res |-> "none", pid |-> "", query |-> NoQuery,
           offset |-> Undefined, acc |-> <<>>, pages |-> 0, finished |-> FALSE]

NoCodec ==
  [stage |-> "none", projectId |-> <<>>, options |-> NoOptions, uri |-> <<>>,
   isFeatureFlags |-> FALSE, isProjects |-> FALSE, extracted |-> Undefined,
   parsed |-> NoOptions, family |-> "none", raw |-> NoQuery]

NoAssess ==
  LET NoDetection == [flagFound |-> FALSE, confidenceLevel |-> "", recommendation |-> ""]
  IN [candidate |-> Undefined, points |-> Finite(0), detected |-> FALSE,
      detection |-> NoDetection, rated |-> FALSE, riskLevel |-> ""]

\* the characters of a project id, and the project id of given characters
ProjectIdChars(p) ==
  CASE p = "p1" -> <<"p", "1">>
    [] p = "P1" -> <<"P", "1">>

IdOf(chars) == CHOOSE p \in ProjectIds : ProjectIdChars(p) = chars

\* the cache key a request addresses
KeyOfFoldsCase(u) ==
  IF u.res = "projects" THEN "projects" ELSE IF u.pid = "P1" THEN "p1" ELSE u.pid

KeyOf(u) == IF u.res = "projects" THEN "projects" ELSE u.pid

\* the cache entry of a key: cachedProjects or cachedFeatureFlags.get(pid)
Entry(k) == IF k = "projects" THEN cachedProjects ELSE cachedFeatureFlags[k]

TtlOf(k) == IF k = "projects" THEN PROJECTS_CACHE_TTL_MS ELSE FEATURE_FLAGS_CACHE_TTL_MS

\* "cached && now - cached.fetchedAt < TTL"
IsFreshBug(e, t, ttl) == IsSet(e) /\ t - Val(e).fetchedAt <= ttl

IsFresh(e, t, ttl) == IsSet(e) /\ t - Val(e).fetchedAt < ttl

\* "const data = await list(); cache = { data, fetchedAt: now }": the entry
\* of the key after the awaited list call has settled.  The assignment is
\* reached only when the call returned data; a rejection leaves the entry.
StoredEntryEvicts(old, ok, data, fetchedAt) ==
  IF ok THEN Some([data |-> data, fetchedAt |-> fetchedAt]) ELSE Undefined

StoredEntryMerges(old, ok, data, fetchedAt) ==
  IF ok
    THEN Some([data |-> (IF IsSet(old) THEN Val(old).data ELSE <<>>) \o data,
               fetchedAt |-> fetchedAt])
    ELSE old

StoredEntryKeepsNewer(old, ok, data, fetchedAt) ==
  IF ok /\ ~(IsSet(old) /\ Val(old).fetchedAt > fetchedAt)
    THEN Some([data |-> data, fetchedAt |-> fetchedAt]) ELSE old

StoredEntry(old, ok, data, fetchedAt) ==
  IF ok THEN Some([data |-> data, fetchedAt |-> fetchedAt]) ELSE old

\* ---------------------------------------------------------------- the view
\* The body of readProjectsResource after getCachedProjects has returned
\* {projects, fetchedAt, fromCache}; `collection` and `ver` record what the
\* cache layer handed over.
\* "{ ...options, limit: effectiveLimit }", the options the uri of a result
\* is built from
UriOptionsAsGiven(options, effectiveLimit) == options

UriOptions(options, effectiveLimit) == [options EXCEPT !.limit = Some(effectiveLimit)]

ProjectsViewAscending(options, projects, fetchedAt, fromCache, ver) ==
  LET order == Coalesce(options.order, "asc")
      sorted == SortProjects(projects, order)
      effectiveLimit == Coalesce(options.limit, DEFAULT_PROJECT_PAGE_SIZE)
      page == ApplyPagination(sorted, Some(effectiveLimit), options.offset)
  IN [ok |-> TRUE, error |-> "", fetchedAt |-> fetchedAt, cached |-> fromCache,
      uri |-> BuildProjectsUri(UriOptions(options, effectiveLimit)),
      order |-> order, limit |-> effectiveLimit,
      offset |-> Coalesce(options.offset, 0), nextOffset |-> page.nextOffset,
      total |-> Len(projects), items |-> page.slice,
      collection |-> projects, ver |-> ver]

ProjectsView(options, projects, fetchedAt, fromCache, ver) ==
  LET order == Coalesce(options.order, "desc")
      sorted == SortProjects(projects, order)
      effectiveLimit == Coalesce(options.limit, DEFAULT_PROJECT_PAGE_SIZE)
      page == ApplyPagination(sorted, Some(effectiveLimit), options.offset)
  IN [ok |-> TRUE, error |-> "", fetchedAt |-> fetchedAt, cached |-> fromCache,
      uri |-> BuildProjectsUri(UriOptions(options, effectiveLimit)),
      order |-> order, limit |-> effectiveLimit,
      offset |-> Coalesce(options.offset, 0), nextOffset |-> page.nextOffset,
      total |-> Len(projects), items |-> page.slice,
      collection |-> projects, ver |-> ver]

\* The body of readFeatureFlagsResource after getCachedFeatureFlags
FeatureFlagsView(projectId, options, flags, fetchedAt, fromCache, ver) ==
  LET order == Coalesce(options.order, "asc")
      sorted == SortFeatureFlags(flags, order)
      effectiveLimit == Coalesce(options.limit, DEFAULT_FLAG_PAGE_SIZE)
      page == ApplyPagination(sorted, Some(effectiveLimit), options.offset)
  IN [ok |-> TRUE, error |-> "", fetchedAt |-> fetchedAt, cached |-> fromCache,
      uri |-> BuildFeatureFlagsUri(ProjectIdChars(projectId),
                                   UriOptions(options, effectiveLimit)),
      order |-> order, limit |-> effectiveLimit,
      offset |-> Coalesce(options.offset, 0), nextOffset |-> page.nextOffset,
      total |-> Len(flags), items |-> page.slice,
      collection |-> flags, ver |-> ver]

\* what the ReadResource handler hands to the read function for a URI
OptionsOf(u) ==
  IF u.res = "projects" THEN ParseProjectsResourceOptions(u.query)
  ELSE ParseFeatureFlagsResourceOptions(u.query)

View(u, data, fetchedAt, fromCache, ver) ==
  IF u.res = "projects"
    THEN ProjectsView(OptionsOf(u), data, fetchedAt, fromCache, ver)
    ELSE FeatureFlagsView(u.pid, OptionsOf(u), data, fetchedAt, fromCache, ver)

\* the read rethrows what the list call threw
Failure(error) ==
  [ok |-> FALSE, error |-> error, fetchedAt |-> 0, cached |-> FALSE,
   uri |-> <<>>, order |-> "", limit |-> 0, offset |-> 0, nextOffset |-> Undefined,
   total |-> 0, items |-> <<>>, collection |-> <<>>, ver |-> 0]

\* the list call of a request applied to a successful reply body
ListResult(u, body) ==
  IF u.res = "projects" THEN ListProjectsResult(body) ELSE ListFeatureFlagsResult(body)

\* raw entries of the remote's JSON bodies
RawProject(id, createdAt) == [id |-> Some(id), name |-> Some(id), createdAt |-> createdAt]
RawFlag(name, createdAt) == [name |-> Some(name), createdAt |-> createdAt]

RemoteBody(k) == IF k = "projects" THEN remoteProjects ELSE remoteFlags[k]

\* what the remote holds after v changes of a collection
ProjectBodyAt(v) ==
  CASE v % 3 = 0 -> <<RawProject("a", Undefined), RawProject("b", Some("1970-01-02"))>>
    [] v % 3 = 1 -> <<RawProject("m", Some("not a date")), RawProject("z", Some("1970-01-03")),
                      RawProject("b", Some("1970-01-02"))>>
    [] v % 3 = 2 -> <<RawProject("z", Some("1970-01-03"))>>

FlagBodyAt(p, v) ==
  CASE v % 3 = 0 -> <<RawFlag("z", Undefined), RawFlag(IF p = "p1" THEN "a" ELSE "m", Undefined)>>
    [] v % 3 = 1 -> <<RawFlag("z", Undefined), RawFlag("a", Undefined),
                      RawFlag("m", Some("1970-01-02"))>>
    [] v % 3 = 2 -> <<RawFlag("b", Undefined)>>

BodyAt(k, v) == IF k = "projects" THEN ProjectBodyAt(v) ELSE FlagBodyAt(k, v)

\* the state of the remote collection (number of changes so far) that the
\* data of a cache entry was listed from
DataVersion(k, data) ==
  LET u == [res |-> IF k = "projects" THEN "projects" ELSE "flags", pid |-> k]
  IN IF \E v \in 0..remoteVer[k] : ListResult(u, BodyAt(k, v)) = data
       THEN CHOOSE v \in 0..remoteVer[k] : ListResult(u, BodyAt(k, v)) = data
       ELSE 0

\* ------------------------------------------------------------------ actions
\* ReadResourceRequestSchema handler for a URI of the projects or flags
\* family, up to the first await: the options are parsed, the read function
\* takes "now" and looks the entry up; a fresh entry is served at once,
\* otherwise the list call is issued and the read is suspended.
GetCached(r, u) ==
  /\ pc[r] = "idle"
  /\ LET k == KeyOf(u)
         e == Entry(k)
     IN /\ req' = [req EXCEPT ![r] = u]
        /\ now' = [now EXCEPT ![r] = clock]
        /\ base' = [base EXCEPT ![r] = lastFetch[k]]
        /\ IF IsFresh(e, clock, TtlOf(k))
             THEN /\ pc' = [pc EXCEPT ![r] = "done"]
                  /\ resp' = [resp EXCEPT ![r] =
                        Some(View(u, Val(e).data, Val(e).fetchedAt, TRUE,
                                  DataVersion(k, Val(e).data)))]
                  /\ UNCHANGED <<fetches, peers>>
             ELSE /\ pc' = [pc EXCEPT ![r] = "fetching"]
                  /\ fetches' = [fetches EXCEPT ![r] = 1]
                  /\ peers' = [q \in Readers |->
                        IF q = r
                          THEN {x \in Readers \ {r} :
                                  pc[x] \in {"fetching", "replied"} /\ KeyOf(req[x]) = k}
                        ELSE IF pc[q] \in {"fetching", "replied"} /\ KeyOf(req[q]) = k
                          THEN peers[q] \cup {r}
                        ELSE peers[q]]
                  /\ UNCHANGED resp
  /\ UNCHANGED <<clock, cachedProjects, cachedFeatureFlags, remoteProjects,
                 remoteFlags, remoteVer, reply, after, lastFetch, walk>>

ReadResource(r, u) ==
  /\ GetCached(r, u)
  /\ UNCHANGED <<uri, codec, assess, config, call, http, paging, cmp>>

\* The remote answers the list call with the collection it holds now.
RemoteReplyOk(r) ==
  /\ pc[r] = "fetching"
  /\ pc' = [pc EXCEPT ![r] = "replied"]
  /\ reply' = [reply EXCEPT ![r] =
        Some([ok |-> TRUE, body |-> RemoteBody(KeyOf(req[r])),
              ver |-> remoteVer[KeyOf(req[r])], error |-> ""])]
  /\ UNCHANGED <<clock, cachedProjects, cachedFeatureFlags, remoteProjects,
                 remoteFlags, remoteVer, req, now, resp, fetches, peers, after,
                 base, lastFetch, walk, uri, codec, assess, config, call, http, paging, cmp>>

\* The remote answers with an HTTP error, or cannot be reached.
RemoteReplyError(r, error) ==
  /\ pc[r] = "fetching"
  /\ pc' = [pc EXCEPT ![r] = "replied"]
  /\ reply' = [reply EXCEPT ![r] =
        Some([ok |-> FALSE, body |-> <<>>, ver |-> 0, error |-> error])]
  /\ UNCHANGED <<clock, cachedProjects, cachedFeatureFlags, remoteProjects,
                 remoteFlags, remoteVer, req, now, resp, fetches, peers, after,
                 base, lastFetch, walk, uri, codec, assess, config, call, http, paging, cmp>>

\* The awaited list call settles and the read function runs to its end:
\* on data the entry of the key is assigned and the view is returned, on a
\* rejection the error is logged and rethrown.
ResolveFetch(r) ==
  /\ pc[r] = "replied"
  /\ LET u == req[r]
         k == KeyOf(u)
         rep == Val(reply[r])
         data == ListResult(u, rep.body)
         entry == StoredEntry(Entry(k), rep.ok, data, now[r])
     IN /\ IF k = "projects"
             THEN /\ cachedProjects' = entry
                  /\ UNCHANGED cachedFeatureFlags
             ELSE /\ cachedFeatureFlags' = [cachedFeatureFlags EXCEPT ![k] = entry]
                  /\ UNCHANGED cachedProjects
        /\ IF rep.ok
             THEN /\ resp' = [resp EXCEPT ![r] =
                        Some(View(u, data, now[r], FALSE, rep.ver))]
                  /\ lastFetch' = [lastFetch EXCEPT ![k] =
                        Some([data |-> data, fetchedAt |-> now[r], ver |-> rep.ver])]
             ELSE /\ resp' = [resp EXCEPT ![r] = Some(Failure(rep.error))]
                  /\ UNCHANGED lastFetch
  /\ pc' = [pc EXCEPT ![r] = "done"]
  /\ after' = [after EXCEPT ![r] =
        {q \in peers[r] : pc[q] = "done" /\ r \in peers[q]}]
  /\ UNCHANGED <<clock, remoteProjects, remoteFlags, remoteVer, req, now, reply,
                 fetches, peers, base, walk, uri, codec, assess, config, call, http, paging, cmp>>

\* The response has been sent; the slot serves the next request.
Release(r) ==
  /\ pc[r] = "done"
  /\ pc' = [pc EXCEPT ![r] = "idle"]
  /\ req' = [req EXCEPT ![r] = NoRequest]
  /\ now' = [now EXCEPT ![r] = 0]
  /\ reply' = [reply EXCEPT ![r] = Undefined]
  /\ resp' = [resp EXCEPT ![r] = Undefined]
  /\ fetches' = [fetches EXCEPT ![r] = 0]
  /\ peers' = [q \in Readers |-> IF q = r THEN {} ELSE peers[q] \ {r}]
  /\ after' = [q \in Readers |-> IF q = r THEN {} ELSE after[q] \ {r}]
  /\ base' = [base EXCEPT ![r] = Undefined]
  /\ uri' = [uri EXCEPT ![r] = <<>>]
  /\ UNCHANGED <<clock, cachedProjects, cachedFeatureFlags, remoteProjects,
                 remoteFlags, remoteVer, lastFetch, codec, assess, config, call, http, paging, cmp>>

Return(r) ==
  /\ ~walk.active
  /\ Release(r)
  /\ UNCHANGED walk

\* Time passes.
Tick(d) ==
  /\ clock + d <= MaxClock
  /\ clock' = clock + d
  /\ UNCHANGED <<cachedProjects, cachedFeatureFlags, remoteProjects, remoteFlags,
                 remoteVer, pc, req, now, reply, resp, fetches, peers, after,
                 base, lastFetch, walk, uri, codec, assess, config, call, http, paging, cmp>>

\* ------------------------------------------------------ remote collections

\* The remote collection of a key changes (somebody edits it in Unleash).
RemoteChange(k) ==
  /\ remoteVer["projects"] + remoteVer["p1"] + remoteVer["P1"] < MaxChanges
  /\ remoteVer' = [remoteVer EXCEPT ![k] = @ + 1]
  /\ IF k = "projects"
       THEN /\ remoteProjects' = ProjectBodyAt(remoteVer[k] + 1)
            /\ UNCHANGED remoteFlags
       ELSE /\ remoteFlags' = [remoteFlags EXCEPT ![k] = FlagBodyAt(k, remoteVer[k] + 1)]
            /\ UNCHANGED remoteProjects
  /\ UNCHANGED <<clock, cachedProjects, cachedFeatureFlags, pc, req, now, reply,
                 resp, fetches, peers, after, base, lastFetch, walk, uri, codec, assess, config, call, http, paging, cmp>>

\* ------------------------------------------------------------ server, Spec
Query(limit, order, offset) == [limit |-> limit, order |-> order, offset |-> offset]

Init ==
  /\ clock = 0
  /\ cachedProjects = Undefined
  /\ cachedFeatureFlags = [p \in ProjectIds |-> Undefined]
  /\ remoteProjects = ProjectBodyAt(0)
  /\ remoteFlags = [p \in ProjectIds |-> FlagBodyAt(p, 0)]
  /\ remoteVer = [k \in Keys |-> 0]
  /\ pc = [r \in Readers |-> "idle"]
  /\ req = [r \in Readers |-> NoRequest]
  /\ now = [r \in Readers |-> 0]
  /\ reply = [r \in Readers |-> Undefined]
  /\ resp = [r \in Readers |-> Undefined]
  /\ fetches = [r \in Readers |-> 0]
  /\ peers = [r \in Readers |-> {}]
  /\ after = [r \in Readers |-> {}]
  /\ base = [r \in Readers |-> Undefined]
  /\ lastFetch = [k \in Keys |-> Undefined]
  /\ walk = NoWalk
  /\ uri = [r \in Readers |-> <<>>]
  /\ codec = NoCodec
  /\ assess = NoAssess
  /\ config = NoConfig
  /\ call = NoCall
  /\ http = 0
  /\ paging = NoPaging
  /\ cmp = NoCmp

\* the resource URIs the clients of the server ask for
Requests ==
  { [res |-> "projects", pid |-> "", query |-> NoQuery],
    [res |-> "projects", pid |-> "", query |-> Query(Some(<<"1">>), Some(<<"a", "s", "c">>), Undefined)],
    [res |-> "flags", pid |-> "p1", query |-> NoQuery],
    [res |-> "flags", pid |-> "p1", query |-> Query(Some(<<"0">>), Undefined, Some(<<"1">>))] }

Next ==
  \/ \E r \in Readers, u \in Requests : ReadResource(r, u)
  \/ \E r \in Readers : RemoteReplyOk(r)
  \/ \E r \in Readers, e \in {"HTTP_500"} : RemoteReplyError(r, e)
  \/ \E r \in Readers : ResolveFetch(r)
  \/ \E r \in Readers : Return(r)
  \/ \E d \in {30000, 59999} : Tick(d)
  \/ \E k \in Keys : RemoteChange(k)

Spec == Init /\ [][Next]_vars

\* ------------------------------------------------- paged reading, SpecView
\* A client reads one collection page by page: it asks for a view, and as
\* long as the result carries nextOffset it asks again with offset set to
\* nextOffset and the same limit and order.  The remote collection does not
\* change meanwhile.
RECURSIVE SeqsUpTo(_, _)
SeqsUpTo(S, n) ==
  IF n = 0 THEN {<<>>}
  ELSE LET shorter == SeqsUpTo(S, n - 1)
       IN shorter \cup {Append(t, x) : t \in shorter, x \in S}

WalkUri ==
  [res |-> walk.res, pid |-> walk.pid,
   query |-> [walk.query EXCEPT !.offset = walk.offset]]

InitView ==
  LET RawProjects ==
        { RawProject("a", Undefined), RawProject("b", Some("1970-01-02")),
          RawProject("m", Some("not a date")), RawProject("z", Some("1970-01-03")),
          RawProject("a", Some("")), RawProject("m", Some("1970-01-02")) }
      RawFlags ==
        { RawFlag("z", Undefined), RawFlag("a", Undefined),
          RawFlag("a", Some("1970-01-02")), RawFlag("", Undefined),
          RawFlag("a", Some("1970-01-03")) }
      \* a remote collection larger than the default page
      BigProjectBody ==
        [i \in 1..(DEFAULT_PROJECT_PAGE_SIZE + 1) |->
           IF i = 1 THEN RawProject("z", Some("1970-01-03"))
           ELSE IF i % 2 = 0 THEN RawProject("a", Some("1970-01-02"))
           ELSE RawProject("m", Some("not a date"))]
      BigFlagBody ==
        [i \in 1..(DEFAULT_FLAG_PAGE_SIZE + 1) |->
           IF i = 1 THEN RawFlag("z", Undefined)
           ELSE IF i % 2 = 0 THEN RawFlag("a", Undefined)
           ELSE RawFlag("m", Some("1970-01-02"))]
      ProjectBodies == SeqsUpTo(RawProjects, MaxItems) \cup {BigProjectBody}
      FlagBodies == SeqsUpTo(RawFlags, MaxItems) \cup {BigFlagBody}
      ViewLimits == {Undefined, Some(<<"1">>), Some(<<"2">>), Some(<<"0">>),
                     Some(<<"-", "1">>), Some(<<"I", "n", "f", "i", "n", "i", "t", "y">>)}
      ViewOrders == {Undefined, Some(<<"a", "s", "c">>), Some(<<"D", "E", "S", "C">>)}
      ViewOffsets == {Undefined, Some(<<"0">>), Some(<<"1">>), Some(<<"2">>),
                      Some(<<"4">>), Some(<<"-", "1">>)}
  IN /\ clock = 0
     /\ cachedProjects = Undefined
     /\ cachedFeatureFlags = [p \in ProjectIds |-> Undefined]
     /\ \E res \in {"projects", "flags"} :
          /\ IF res = "projects"
               THEN /\ remoteProjects \in ProjectBodies
                    /\ remoteFlags = [p \in ProjectIds |-> <<>>]
               ELSE /\ remoteProjects = <<>>
                    /\ \E body \in FlagBodies :
                         remoteFlags = [p \in ProjectIds |-> IF p = "p1" THEN body ELSE <<>>]
          /\ \E l \in ViewLimits, o \in ViewOrders, f \in ViewOffsets :
               walk = [active |-> TRUE, res |-> res,
                       pid |-> IF res = "projects" THEN "" ELSE "p1",
                       query |-> Query(l, o, f), offset |-> f,
                       acc |-> <<>>, pages |-> 0, finished |-> FALSE]
     /\ remoteVer = [k \in Keys |-> 0]
     /\ pc = [r \in Readers |-> "idle"]
     /\ req = [r \in Readers |-> NoRequest]
     /\ now = [r \in Readers |-> 0]
     /\ reply = [r \in Readers |-> Undefined]
     /\ resp = [r \in Readers |-> Undefined]
     /\ fetches = [r \in Readers |-> 0]
     /\ peers = [r \in Readers |-> {}]
     /\ after = [r \in Readers |-> {}]
     /\ base = [r \in Readers |-> Undefined]
     /\ lastFetch = [k \in Keys |-> Undefined]
     /\ uri = [r \in Readers |-> <<>>]
     /\ codec = NoCodec
     /\ assess = NoAssess
     /\ config = NoConfig
     /\ call = NoCall
     /\ http = 0
     /\ paging = NoPaging
     /\ cmp = NoCmp

\* the client sends the request for the next page
WalkRead ==
  /\ walk.active /\ ~walk.finished
  /\ ReadResource("r1", WalkUri)

\* the client takes the result: the page is appended to what it has read
\* and nextOffset, when present, becomes the offset of the next request;
\* a failed read is asked again.
WalkCollect ==
  /\ walk.active
  /\ Release("r1")
  /\ LET result == Val(resp["r1"])
     IN IF result.ok
          THEN walk' = [walk EXCEPT
                 !.acc = @ \o result.items,
                 !.pages = @ + 1,
                 !.offset = IF IsSet(result.nextOffset)
                              THEN Some(NumberToString(Val(result.nextOffset)))
                              ELSE @,
                 !.finished = ~IsSet(result.nextOffset)]
          ELSE UNCHANGED walk

NextView ==
  \/ WalkRead
  \/ RemoteReplyOk("r1")
  \/ \E e \in {"HTTP_500"} : RemoteReplyError("r1", e)
  \/ ResolveFetch("r1")
  \/ WalkCollect

SpecView == InitView /\ [][NextView]_vars

\* ------------------------------------------------ the codec, SpecCodec

Quiescent ==
  /\ clock = 0
  /\ cachedProjects = Undefined
  /\ cachedFeatureFlags = [p \in ProjectIds |-> Undefined]
  /\ remoteProjects = ProjectBodyAt(0)
  /\ remoteFlags = [p \in ProjectIds |-> FlagBodyAt(p, 0)]
  /\ remoteVer = [k \in Keys |-> 0]
  /\ pc = [r \in Readers |-> "idle"]
  /\ req = [r \in Readers |-> NoRequest]
  /\ now = [r \in Readers |-> 0]
  /\ reply = [r \in Readers |-> Undefined]
  /\ resp = [r \in Readers |-> Undefined]
  /\ fetches = [r \in Readers |-> 0]
  /\ peers = [r \in Readers |-> {}]
  /\ after = [r \in Readers |-> {}]
  /\ base = [r \in Readers |-> Undefined]
  /\ lastFetch = [k \in Keys |-> Undefined]
  /\ walk = NoWalk
  /\ uri = [r \in Readers |-> <<>>]

\* the URI of a family with the query a client wrote
RECURSIVE JoinPairs(_)
JoinPairs(pairs) ==
  IF pairs = <<>> THEN <<>>
  ELSE Head(pairs) \o (IF Tail(pairs) = <<>> THEN <<>>
                       ELSE <<"&">> \o JoinPairs(Tail(pairs)))

RawPair(name, value) ==
  IF IsSet(value) THEN <<name \o <<"=">> \o Val(value)>> ELSE <<>>

RawUri(family, raw) ==
  LET pairs == RawPair(LimitName, raw.limit) \o RawPair(OrderName, raw.order)
                 \o RawPair(OffsetName, raw.offset)
      path == IF family = "projects" THEN PROJECTS_RESOURCE_URI
              ELSE FlagsUriOf(ProjectIdChars("p1"))
  IN IF pairs = <<>> THEN path ELSE path \o <<"?">> \o JoinPairs(pairs)

InitCodec ==
  LET \* The functions of the URI codec applied to a project id and options:
      \* buildFeatureFlagsUri builds the URI, then the classifiers, the project
      \* id extractor and the option parser are applied to what was built.
      IdChars == {"a", "1", "/", " ", "?", "%", "+", "&", "#", "=", "U+00E9"}
      CodecProjectIds ==
        (SeqsUpTo(IdChars, MaxIdLen) \ {<<>>}) \cup {<<"%", "2", "F">>, <<"a", "/", "b">>}
      CodecLimits == {Undefined, Some(0), Some(7), Some(20), Some(-1)}
      CodecOrders == {Undefined, Some("asc"), Some("desc")}
      CodecOffsets == {Undefined, Some(0), Some(12), Some(-1)}
      \* what a client writes as the value of limit or offset, and of order
      RawNumbers ==
        { Undefined, Some(<<>>), Some(<<"0">>), Some(<<"7">>), Some(<<"-", "1">>),
          Some(<<"1", "2", "a", "b", "c">>), Some(<<"a", "b", "c">>), Some(<<"+", "3">>), Some(<<"1", ".", "9">>),
          Some(<<"%", "3", "1">>) }
      RawOrders ==
        { Undefined, Some(<<>>), Some(<<"a", "s", "c">>), Some(<<"D", "E", "S", "C">>), Some(<<"D", "e", "s", "c">>),
          Some(<<"u", "p">>) }
  IN /\ Quiescent
     /\ assess = NoAssess
     /\ config = NoConfig
     /\ call = NoCall
     /\ http = 0
     /\ paging = NoPaging
     /\ cmp = NoCmp
     /\ \/ \E id \in CodecProjectIds, l \in CodecLimits, o \in CodecOrders,
              f \in CodecOffsets :
             codec = [NoCodec EXCEPT !.stage = "input", !.projectId = id,
                                     !.options = [limit |-> l, order |-> o, offset |-> f]]
        \/ \E family \in {"projects", "flags"}, l \in RawNumbers, o \in RawOrders,
              f \in RawNumbers :
             codec = [NoCodec EXCEPT !.stage = "request", !.family = family,
                                     !.raw = Query(l, o, f),
                                     !.uri = RawUri(family, Query(l, o, f))]

\* buildFeatureFlagsUri(projectId, options)
CodecBuild ==
  /\ codec.stage = "input"
  /\ codec' = [codec EXCEPT
       !.stage = "built",
       !.uri = BuildFeatureFlagsUri(codec.projectId, codec.options)]
  /\ UNCHANGED <<clock, cachedProjects, cachedFeatureFlags, remoteProjects,
                 remoteFlags, remoteVer, pc, req, now, reply, resp, fetches,
                 peers, after, base, lastFetch, walk, uri, assess, config, call, http, paging, cmp>>

\* isFeatureFlagsUri, isProjectsUri, extractProjectIdFromFeatureUri and
\* parseFeatureFlagsResourceOptions of the URI
CodecClassify ==
  /\ codec.stage = "built"
  /\ codec' = [codec EXCEPT
       !.stage = "classified",
       !.isFeatureFlags = IsFeatureFlagsUri(codec.uri),
       !.isProjects = IsProjectsUri(codec.uri),
       !.extracted = ExtractProjectIdFromFeatureUri(codec.uri),
       !.parsed = ParseFeatureFlagsResourceOptionsOfUri(codec.uri)]
  /\ UNCHANGED <<clock, cachedProjects, cachedFeatureFlags, remoteProjects,
                 remoteFlags, remoteVer, pc, req, now, reply, resp, fetches,
                 peers, after, base, lastFetch, walk, uri, assess, config, call, http, paging, cmp>>

\* parseProjectsResourceOptions / parseFeatureFlagsResourceOptions of the
\* URI a client wrote
CodecParse ==
  /\ codec.stage = "request"
  /\ codec' = [codec EXCEPT
       !.stage = "parsed",
       !.parsed = IF codec.family = "projects"
                    THEN ParseProjectsResourceOptionsOfUri(codec.uri)
                    ELSE ParseFeatureFlagsResourceOptionsOfUri(codec.uri)]
  /\ UNCHANGED <<clock, cachedProjects, cachedFeatureFlags, remoteProjects,
                 remoteFlags, remoteVer, pc, req, now, reply, resp, fetches,
                 peers, after, base, lastFetch, walk, uri, assess, config, call, http, paging, cmp>>

NextCodec ==
  \/ CodecBuild
  \/ CodecClassify
  \/ CodecParse

SpecCodec == InitCodec /\ [][NextCodec]_vars

\* ------------------------------------------------ the handler, SpecUri
\* The ReadResourceRequestSchema handler on the URI of the request: the
\* URI is classified, the project id and the options are taken from it and
\* the read function of its family is called; a URI of no family is
\* refused.
\* the URIs the clients send
ClientUris ==
  { PROJECTS_RESOURCE_URI,
    PROJECTS_RESOURCE_URI \o <<"?", "l", "i", "m", "i", "t", "=", "1", "&", "o", "r", "d", "e", "r", "=", "A", "S", "C">>,
    FlagsUriOf(<<"p", "1">>),
    FlagsUriOf(<<"%", "7", "0", "1">>) \o <<"?", "l", "i", "m", "i", "t", "=", "0", "&", "o", "f", "f", "s", "e", "t", "=", "1">>,
    FlagsUriOf(<<"P", "1">>),
    FlagsUriOf(<<"a", "?", "b">>),
    FlagsUriOf(<<"p", "1">>) \o <<"?", "a", "\n", "b">>,
    FlagsUriOf(<<"p", "1">>) \o <<"/">>,
    FlagsUriOf(<<"p", "1", "/", "P", "1">>),
    FlagsUriOf(<<>>),
    PROJECTS_RESOURCE_URI \o <<"/">>,
    PROJECTS_RESOURCE_URI \o <<"/">> \o <<"p", "1">>,
    PROJECTS_RESOURCE_URI \o <<"1">>,
    Scheme \o <<"f", "e", "a", "t", "u", "r", "e", "-", "f", "l", "a", "g", "s">> }

UnknownResource == "Unknown resource"
ProjectIdMissing == "Project ID missing from feature flags URI"

\* the query of a URI as URLSearchParams.get reads it; nothing without a ?
QueryOf(s) == IF IndexOf(s, "?") = 0 THEN NoQuery ELSE QueryParams(s)

\* the handler throws before any read function is called
Reject(r, error) ==
  /\ pc' = [pc EXCEPT ![r] = "done"]
  /\ resp' = [resp EXCEPT ![r] = Some(Failure(error))]
  /\ UNCHANGED <<clock, cachedProjects, cachedFeatureFlags, remoteProjects,
                 remoteFlags, remoteVer, req, now, reply, fetches, peers, after,
                 base, lastFetch, walk>>

ReadResourceUri(r, s) ==
  /\ pc[r] = "idle"
  /\ uri' = [uri EXCEPT ![r] = s]
  /\ UNCHANGED <<codec, assess, config, call, http, paging, cmp>>
  /\ IF IsProjectsUri(s)
       THEN GetCached(r, [res |-> "projects", pid |-> "", query |-> QueryOf(s)])
     ELSE IF IsFeatureFlagsUri(s)
       THEN LET projectId == ExtractProjectIdFromFeatureUri(s)
            IN IF ~IsSet(projectId) \/ Val(projectId) = <<>>
                 THEN Reject(r, ProjectIdMissing)
                 ELSE GetCached(r, [res |-> "flags", pid |-> IdOf(Val(projectId)),
                                    query |-> QueryOf(s)])
     ELSE Reject(r, UnknownResource)

InitUri ==
  /\ Quiescent
  /\ codec = NoCodec
  /\ assess = NoAssess
  /\ config = NoConfig
  /\ call = NoCall
  /\ http = 0
  /\ paging = NoPaging
  /\ cmp = NoCmp

NextUri ==
  \/ \E r \in Readers, s \in ClientUris : ReadResourceUri(r, s)
  \/ \E r \in Readers : RemoteReplyOk(r)
  \/ \E r \in Readers, e \in {"HTTP_500"} : RemoteReplyError(r, e)
  \/ \E r \in Readers : ResolveFetch(r)
  \/ \E r \in Readers : Return(r)
  \/ \E d \in {30000, 59999} : Tick(d)

SpecUri == InitUri /\ [][NextUri]_vars

\* ------------------------------------------- the classifiers, SpecAssess

InitAssess ==
  LET \* createDetectionResult is applied to a candidate and calculateRiskLevel
      \* to a point total.
      CandidateScores ==
        { Finite(n) : n \in { -ScoreScale, -1, 0, 1, 39999, 40000, 40001, 55000, 69990,
                              69999, 70000, 70001, 99999, ScoreScale, ScoreScale + 1,
                              2 * ScoreScale } }
          \cup {NaN, PlusInfinity, MinusInfinity}
      Candidates == {Undefined} \cup {Some(x) : x \in CandidateScores}
      PointTotals == {Finite(n) : n \in -MaxPoints..MaxPoints}
  IN /\ Quiescent
     /\ codec = NoCodec
     /\ config = NoConfig
     /\ call = NoCall
     /\ http = 0
     /\ paging = NoPaging
     /\ cmp = NoCmp
     /\ \E c \in Candidates, n \in PointTotals :
          assess = [NoAssess EXCEPT !.candidate = c, !.points = n]

Detect ==
  /\ ~assess.detected
  /\ assess' = [assess EXCEPT !.detected = TRUE,
                              !.detection = CreateDetectionResult(assess.candidate)]
  /\ UNCHANGED <<clock, cachedProjects, cachedFeatureFlags, remoteProjects,
                 remoteFlags, remoteVer, pc, req, now, reply, resp, fetches,
                 peers, after, base, lastFetch, walk, uri, codec, config, call, http, paging, cmp>>

Rate ==
  /\ ~assess.rated
  /\ assess' = [assess EXCEPT !.rated = TRUE,
                              !.riskLevel = CalculateRiskLevel(assess.points)]
  /\ UNCHANGED <<clock, cachedProjects, cachedFeatureFlags, remoteProjects,
                 remoteFlags, remoteVer, pc, req, now, reply, resp, fetches,
                 peers, after, base, lastFetch, walk, uri, codec, config, call, http, paging, cmp>>

NextAssess ==
  \/ Detect
  \/ Rate

SpecAssess == InitAssess /\ [][NextAssess]_vars

\* -------------------------------------------------------------- tool calls
\* The start of a tool: synchronously up to the await of the client
\* operation, or to the end when nothing is awaited.
StartTool(via, tool, args) ==
  LET body == ToolBody(tool, args, config.defaultProject)
      awaits == ~body.thrown /\ ClientOperationOf(tool) # ""
  IN call' = [stage |-> IF awaits THEN "awaiting" ELSE "returned",
              via |-> via, tool |-> tool, args |-> args,
              operation |-> IF awaits THEN ClientOperationOf(tool) ELSE "",
              dryRun |-> FALSE,
              response |-> Returned(NoResult),
              outcome |-> IF awaits THEN Returned(NoResult) ELSE Settle(via, body)]

\* The CallTool request handler: the four tools are dispatched, any other
\* name throws inside the handler's try.
CallTool(name, args) ==
  /\ call.stage = "idle"
  /\ IF name \in HandlerTools
       THEN StartTool("handler", name, args)
       ELSE call' = [NoCall EXCEPT !.stage = "returned", !.via = "handler",
                                   !.tool = name, !.args = args,
                                   !.outcome = TryCatch(Threw(Error("Unknown tool")))]
  /\ UNCHANGED <<clock, cachedProjects, cachedFeatureFlags, remoteProjects,
                 remoteFlags, remoteVer, pc, req, now, reply, resp, fetches,
                 peers, after, base, lastFetch, walk, uri, codec, assess,
                 config, http, paging, cmp>>

\* setFlagRollout and getFlagState called as functions
ToolFunction(tool, args) ==
  /\ call.stage = "idle"
  /\ StartTool("function", tool, args)
  /\ UNCHANGED <<clock, cachedProjects, cachedFeatureFlags, remoteProjects,
                 remoteFlags, remoteVer, pc, req, now, reply, resp, fetches,
                 peers, after, base, lastFetch, walk, uri, codec, assess,
                 config, http, paging, cmp>>

\* createFeatureFlag / setFlexibleRolloutStrategy / getFeature with dryRun
\* set: the placeholder is returned and requestJson is not called.
ClientPlaceholderFetches ==
  /\ call.stage = "awaiting"
  /\ config.dryRun
  /\ http < MaxHttp
  /\ http' = http + 1
  /\ call' = [call EXCEPT !.stage = "settled", !.dryRun = TRUE,
                          !.response = Returned(NoResult)]
  /\ UNCHANGED <<clock, cachedProjects, cachedFeatureFlags, remoteProjects,
                 remoteFlags, remoteVer, pc, req, now, reply, resp, fetches,
                 peers, after, base, lastFetch, walk, uri, codec, assess,
                 config, paging, cmp>>

ClientPlaceholder ==
  /\ call.stage = "awaiting"
  /\ config.dryRun
  /\ call' = [call EXCEPT !.stage = "settled", !.dryRun = TRUE,
                          !.response = Returned(NoResult)]
  /\ UNCHANGED <<clock, cachedProjects, cachedFeatureFlags, remoteProjects,
                 remoteFlags, remoteVer, pc, req, now, reply, resp, fetches,
                 peers, after, base, lastFetch, walk, uri, codec, assess,
                 config, http, paging, cmp>>

\* The same operations without dryRun: requestJson issues one HTTP request
\* and ends with the parsed body, CustomError HTTP_<status>, CustomError
\* NETWORK_ERROR, or another error rethrown as it is.
ClientRequestJson(outcome) ==
  /\ call.stage = "awaiting"
  /\ ~config.dryRun
  /\ http < MaxHttp
  /\ http' = http + 1
  /\ call' = [call EXCEPT !.stage = "settled", !.response = outcome]
  /\ UNCHANGED <<clock, cachedProjects, cachedFeatureFlags, remoteProjects,
                 remoteFlags, remoteVer, pc, req, now, reply, resp, fetches,
                 peers, after, base, lastFetch, walk, uri, codec, assess,
                 config, paging, cmp>>

\* The tool resumes after the await and runs to its end: the error is
\* rethrown into the tool's catch, or the result is built with
\* structuredContent.success: true.
ResumeTool ==
  /\ call.stage = "settled"
  /\ call' = [call EXCEPT !.stage = "returned",
                !.outcome = Settle(call.via,
                   IF call.response.thrown THEN call.response
                   ELSE Returned(CallToolResult(FALSE, Some(TRUE), "")))]
  /\ UNCHANGED <<clock, cachedProjects, cachedFeatureFlags, remoteProjects,
                 remoteFlags, remoteVer, pc, req, now, reply, resp, fetches,
                 peers, after, base, lastFetch, walk, uri, codec, assess,
                 config, http, paging, cmp>>

\* The result has been sent; the next request may come.
CallReturn ==
  /\ call.stage = "returned"
  /\ call' = NoCall
  /\ UNCHANGED <<clock, cachedProjects, cachedFeatureFlags, remoteProjects,
                 remoteFlags, remoteVer, pc, req, now, reply, resp, fetches,
                 peers, after, base, lastFetch, walk, uri, codec, assess,
                 config, http, paging, cmp>>

\* listProjects / listFeatureFlags with dryRun set: the one-element
\* placeholder list, no HTTP request (the placeholder project is dated with
\* the time of the call, for which the epoch stands; the flag has no date).
DryRunList(k) ==
  IF k = "projects"
    THEN <<[id |-> Some("default"), name |-> Some("Default (dry run)"),
            createdAt |-> Some(EPOCH_ISO)]>>
    ELSE <<[name |-> Some("dry-run-placeholder-flag"), createdAt |-> Undefined]>>

ListPlaceholder(r) ==
  /\ pc[r] = "fetching"
  /\ config.dryRun
  /\ pc' = [pc EXCEPT ![r] = "replied"]
  /\ reply' = [reply EXCEPT ![r] =
        Some([ok |-> TRUE,
              body |-> DryRunList(KeyOf(req[r])),
              ver |-> 0, error |-> ""])]
  /\ UNCHANGED <<clock, cachedProjects, cachedFeatureFlags, remoteProjects,
                 remoteFlags, remoteVer, req, now, resp, fetches, peers, after,
                 base, lastFetch, walk, uri, codec, assess, config, call, http, paging, cmp>>

\* The same operations without dryRun: one HTTP request, answered with the
\* collection or with an error.
ListRequestJson(r, ok, error) ==
  /\ pc[r] = "fetching"
  /\ ~config.dryRun
  /\ http < MaxHttp
  /\ http' = http + 1
  /\ pc' = [pc EXCEPT ![r] = "replied"]
  /\ reply' = [reply EXCEPT ![r] =
        IF ok THEN Some([ok |-> TRUE, body |-> RemoteBody(KeyOf(req[r])),
                         ver |-> remoteVer[KeyOf(req[r])], error |-> ""])
        ELSE Some([ok |-> FALSE, body |-> <<>>, ver |-> 0, error |-> error])]
  /\ UNCHANGED <<clock, cachedProjects, cachedFeatureFlags, remoteProjects,
                 remoteFlags, remoteVer, req, now, resp, fetches, peers, after,
                 base, lastFetch, walk, uri, codec, assess, config, call, paging, cmp>>

\* the arguments of the requests of the model, for each tool valid ones
\* and ones its schema refuses, with and without a project id
ToolArgs(tool) ==
  LET validCreateFlag ==
        [EmptyArgs EXCEPT !.name = Some("flag"), !.type = Some("release"),
                          !.description = Some("text")]
      validRollout ==
        [EmptyArgs EXCEPT !.featureName = Some("flag"), !.environment = Some("dev"),
                          !.rolloutPercentage = Some(50)]
      providedProjectIds == {Undefined, Some(""), Some("p1")}
  IN CASE tool = "create_flag" ->
         {[a EXCEPT !.projectId = p] :
            a \in {validCreateFlag,
                   [validCreateFlag EXCEPT !.name = Undefined],
                   [validCreateFlag EXCEPT !.name = Some("")],
                   [validCreateFlag EXCEPT !.type = Undefined],
                   [validCreateFlag EXCEPT !.type = Some("bogus")],
                   [validCreateFlag EXCEPT !.description = Some("")]},
            p \in providedProjectIds} \cup {NoArgs}
    [] tool = "evaluate_change" ->
         {NoArgs, EmptyArgs, [EmptyArgs EXCEPT !.description = Some("text")]}
    [] tool = "detect_flag" ->
         {NoArgs, EmptyArgs, [EmptyArgs EXCEPT !.description = Some("")],
          [EmptyArgs EXCEPT !.description = Some("text")]}
    [] tool = "wrap_change" ->
         {NoArgs, EmptyArgs, [EmptyArgs EXCEPT !.flagName = Some("")],
          [EmptyArgs EXCEPT !.flagName = Some("flag")]}
    [] tool = "set_flag_rollout" ->
         {[a EXCEPT !.projectId = p] :
            a \in {validRollout,
                   [validRollout EXCEPT !.environment = Some("")],
                   [validRollout EXCEPT !.rolloutPercentage = Some(101)],
                   [validRollout EXCEPT !.rolloutPercentage = Some(0 - 1)]},
            p \in providedProjectIds}
    [] tool = "get_flag_state" ->
         {[a EXCEPT !.projectId = p] :
            a \in {[EmptyArgs EXCEPT !.featureName = Some("flag")],
                   [EmptyArgs EXCEPT !.featureName = Some("")]},
            p \in providedProjectIds}
    [] OTHER -> {NoArgs, EmptyArgs}

InitTools ==
  /\ Quiescent
  /\ codec = NoCodec
  /\ assess = NoAssess
  /\ call = NoCall
  /\ http = 0
  /\ paging = NoPaging
  /\ cmp = NoCmp
  /\ config \in [dryRun : BOOLEAN,
                 defaultProject : {Undefined, Some(""), Some("p1")}]

NextTools ==
  \/ \E name \in HandlerTools \cup {"set_flag_rollout", "no_such_tool", ""} :
       \E args \in ToolArgs(name) : CallTool(name, args)
  \/ \E tool \in {"set_flag_rollout", "get_flag_state"} :
       \E args \in ToolArgs(tool) : ToolFunction(tool, args)
  \/ ClientPlaceholder
  \/ \E outcome \in {Returned(NoResult), Threw(CustomError("HTTP_500")),
                      Threw(CustomError("NETWORK_ERROR")),
                      Threw(Error("SyntaxError"))} : ClientRequestJson(outcome)
  \/ ResumeTool
  \/ CallReturn
  \/ \E s \in { PROJECTS_RESOURCE_URI,
               FlagsUriOf(<<"p", "1">>),
               FlagsUriOf(<<"p", "1">>) \o <<"?", "l", "i", "m", "i", "t", "=", "1">>,
               FlagsUriOf(<<"a", "?", "b">>) } : ReadResourceUri("r1", s)
  \/ ListPlaceholder("r1")
  \/ \E ok \in BOOLEAN, e \in {"HTTP_500"} : ListRequestJson("r1", ok, e)
  \/ ResolveFetch("r1")
  \/ Return("r1")

SpecTools == InitTools /\ [][NextTools]_vars

\* ------------------------------------------- the view functions, SpecPaging
\* readProjectsResource / readFeatureFlagsResource called with options given
\* as numbers (limit and offset are integers here), on the collection the
\* cache layer hands over.  The array handed over is the one the cache entry
\* holds, so what a view does to its argument shows in `data`.
\* "[...projects].sort(...)" / "[...flags].sort(...)": the argument of the
\* sort function after the call; the copy is sorted, the argument is not.
ArgumentAfterSortInPlace(res, items, order) ==
  IF res = "projects" THEN SortProjects(items, order) ELSE SortFeatureFlags(items, order)

ArgumentAfterSort(res, items, order) == items

InitPaging ==
  LET \* the collections the views are taken of: what listProjects and
      \* listFeatureFlags return for remote bodies of up to MaxItems elements
      PagingCollections(res) ==
        IF res = "projects"
          THEN {ListProjectsResult(body) :
                  body \in SeqsUpTo({ RawProject("a", Some("")),
                                      RawProject("b", Some("1970-01-02")),
                                      RawProject("z", Some("1970-01-03")) }, MaxItems)}
          ELSE {ListFeatureFlagsResult(body) :
                  body \in SeqsUpTo({ RawFlag("z", Undefined), RawFlag("a", Undefined),
                                      RawFlag("a", Some("1970-01-02")) }, MaxItems)}
  IN /\ Quiescent
     /\ codec = NoCodec
     /\ assess = NoAssess
     /\ config = NoConfig
     /\ call = NoCall
     /\ http = 0
     /\ \E res \in {"projects", "flags"} : \E items \in PagingCollections(res) :
          paging = [NoPaging EXCEPT !.res = res, !.stored = items, !.data = items]
     /\ cmp = NoCmp

\* The read function on a cache hit: the view of the entry's data, with
\* options of the caller's choice or following nextOffset.
ReadView(options, followed) ==
  /\ paging' = [paging EXCEPT
       !.options = options,
       !.followed = followed,
       !.result = Some(IF paging.res = "projects"
                         THEN ProjectsView(options, paging.data, 0, TRUE, 0)
                         ELSE FeatureFlagsView("p1", options, paging.data, 0, TRUE, 0)),
       !.data = ArgumentAfterSort(paging.res, paging.data,
                   Coalesce(options.order,
                            IF paging.res = "projects" THEN "desc" ELSE "asc"))]
  /\ UNCHANGED <<clock, cachedProjects, cachedFeatureFlags, remoteProjects,
                 remoteFlags, remoteVer, pc, req, now, reply, resp, fetches,
                 peers, after, base, lastFetch, walk, uri, codec, assess,
                 config, call, http, cmp>>

\* a caller follows the nextOffset of the last result, limit and order kept
FollowNextOffset ==
  /\ IsSet(paging.result)
  /\ IsSet(Val(paging.result).nextOffset)
  /\ ReadView([paging.options EXCEPT !.offset = Val(paging.result).nextOffset], TRUE)

NextPaging ==
  \/ \E l \in {Undefined} \cup {Some(n) : n \in (0 - 1)..2},
        o \in {Undefined, Some("asc"), Some("desc")},
        f \in {Undefined} \cup {Some(n) : n \in (0 - 1)..2} :
       ReadView(Query(l, o, f), FALSE)
  \/ FollowNextOffset

SpecPaging == InitPaging /\ [][NextPaging]_vars

\* ------------------------------------ the flags comparator, SpecComparator

InitComparator ==
  LET \* The comparison function sortFeatureFlags hands to Array.prototype.sort,
      \* applied to the pairs of three flags.
      ComparedFlags ==
        { [name |-> n, createdAt |-> d] :
            n \in {"a", "z"},
            d \in {Undefined, Some(""), Some("1970-01-02"), Some("1970-01-03")} }
  IN /\ Quiescent
     /\ codec = NoCodec
     /\ assess = NoAssess
     /\ config = NoConfig
     /\ call = NoCall
     /\ http = 0
     /\ paging = NoPaging
     /\ \E order \in {"asc", "desc"}, a \in ComparedFlags, b \in ComparedFlags,
           c \in ComparedFlags :
          cmp = [NoCmp EXCEPT !.order = order, !.a = a, !.b = b, !.c = c]

CompareThree ==
  /\ ~cmp.compared
  /\ cmp' = [cmp EXCEPT !.compared = TRUE,
                        !.ab = CompareFlags(cmp.order, cmp.a, cmp.b),
                        !.ba = CompareFlags(cmp.order, cmp.b, cmp.a),
                        !.bc = CompareFlags(cmp.order, cmp.b, cmp.c),
                        !.ac = CompareFlags(cmp.order, cmp.a, cmp.c)]
  /\ UNCHANGED <<clock, cachedProjects, cachedFeatureFlags, remoteProjects,
                 remoteFlags, remoteVer, pc, req, now, reply, resp, fetches,
                 peers, after, base, lastFetch, walk, uri, codec, assess,
                 config, call, http, paging>>

SpecComparator == InitComparator /\ [][CompareThree]_vars

\* ================================================================== claims
StartsRead(r) == pc[r] = "idle" /\ pc'[r] # "idle"
Done(r) == pc[r] = "done"
Result(r) == Val(resp[r])
Stored(r) == Some([data |-> Result(r).collection, fetchedAt |-> Result(r).fetchedAt])

\* C1 - Cache hit.  A read of a key that starts at time now = clock while an
\* entry with now - fetchedAt < 60000 exists issues no remote call, returns
\* at once the data and fetchedAt of that entry with fromCache = true and
\* leaves the caches as they are; with now - fetchedAt = 60000 the entry is
\* not fresh and the read goes to the remote.
C1_CacheHit ==
  [][\A r \in Readers :
       StartsRead(r) =>
         LET e == Entry(KeyOf(req'[r]))
         IN /\ (IsSet(e) /\ clock - Val(e).fetchedAt < 60000) =>
                 /\ pc'[r] = "done"
                 /\ fetches'[r] = 0
                 /\ Val(resp'[r]).ok /\ Val(resp'[r]).cached
                 /\ Val(resp'[r]).collection = Val(e).data
                 /\ Val(resp'[r]).fetchedAt = Val(e).fetchedAt
                 /\ cachedProjects' = cachedProjects
                 /\ cachedFeatureFlags' = cachedFeatureFlags
            /\ (IsSet(e) /\ clock - Val(e).fetchedAt = 60000) =>
                 pc'[r] = "fetching"]_vars

\* two reads of one key, the second one 59999 ms after the fetch of the
\* first and served from the cache with the same data
C1_Witness ==
  \E r, q \in Readers :
    /\ r # q /\ Done(r) /\ Done(q) /\ KeyOf(req[r]) = KeyOf(req[q])
    /\ Result(q).ok /\ ~Result(q).cached
    /\ Result(r).ok /\ Result(r).cached
    /\ now[r] - Result(r).fetchedAt = 59999
    /\ Result(r).collection = Result(q).collection
    /\ Result(r).fetchedAt = Result(q).fetchedAt

C3_FetchFailure ==
  [][\A r \in Readers :
       /\ (pc[r] = "replied" /\ ~Val(reply[r]).ok /\ pc'[r] = "done") =>
            /\ cachedProjects' = cachedProjects
            /\ cachedFeatureFlags' = cachedFeatureFlags
            /\ ~Val(resp'[r]).ok
            /\ Val(resp'[r]).error = Val(reply[r]).error
            /\ Val(resp'[r]).items = <<>>
       /\ StartsRead(r) =>
            \A q \in Readers \ {r} :
              (/\ Done(q) /\ ~Result(q).ok
               /\ KeyOf(req[q]) = KeyOf(req'[r])
               /\ lastFetch[KeyOf(req[q])] = base[q])
              => pc'[r] = "fetching" /\ fetches'[r] = 1]_vars

\* a read failed while a stale entry was stored, the entry is still there
\* and a later read of the key is fetching again
C3_Witness ==
  \E r, q \in Readers :
    /\ r # q /\ Done(q) /\ ~Result(q).ok
    /\ pc[r] = "fetching" /\ KeyOf(req[r]) = KeyOf(req[q])
    /\ r \notin peers[q]
    /\ IsSet(Entry(KeyOf(req[q])))
    /\ lastFetch[KeyOf(req[q])] = base[q]

\* C4 - Concurrent miss.  Two reads of one key that were both waiting for
\* the remote at the same time have each issued their own list call, and
\* once both calls have returned data the entry of the key is the result of
\* the one that returned last.
C4_ConcurrentMiss ==
  \A r, q \in Readers :
    (/\ r # q /\ Done(r) /\ Done(q) /\ KeyOf(req[r]) = KeyOf(req[q])
     /\ q \in peers[r] /\ r \in peers[q])
    => /\ fetches[r] = 1 /\ fetches[q] = 1
       /\ (Result(r).ok /\ Result(q).ok /\ q \in after[r])
            => Entry(KeyOf(req[r])) = Stored(r)

\* two overlapping reads got different data and the later one's is stored,
\* although it took its timestamp first
C4_Witness ==
  \E r, q \in Readers :
    /\ r # q /\ Done(r) /\ Done(q) /\ KeyOf(req[r]) = KeyOf(req[q])
    /\ q \in peers[r] /\ r \in peers[q] /\ q \in after[r]
    /\ Result(r).ok /\ Result(q).ok
    /\ Result(r).collection # Result(q).collection
    /\ Result(r).fetchedAt < Result(q).fetchedAt
    /\ Entry(KeyOf(req[r])) = Stored(r)

\* C5 - No stale-after-fresh regression.  The data a read returns was listed
\* from a state of the remote collection at least as recent as the one the
\* last fetch of that key that had returned data before the read began was
\* listed from.
C5_NoRegression ==
  \A r \in Readers :
    (Done(r) /\ Result(r).ok /\ IsSet(base[r]))
    => Result(r).ver >= Val(base[r]).ver

\* a read served from the cache, after the remote collection has changed,
\* with the data of the last fetch that had resolved before it began
C5_Witness ==
  \E r \in Readers :
    /\ Done(r) /\ Result(r).ok /\ Result(r).cached
    /\ IsSet(base[r]) /\ Val(base[r]).ver = 0 /\ remoteVer[KeyOf(req[r])] = 1
    /\ Result(r).fetchedAt < clock

\* ------------------------------------------------- claims on the projector
\* the collection a result was projected from, in the order of the result
SortedOf(u, result) ==
  IF u.res = "projects" THEN SortProjects(result.collection, result.order)
  ELSE SortFeatureFlags(result.collection, result.order)

\* the number a query value stands for, if it stands for one
Requested(param) == IF IsSet(param) THEN ParseInt(Val(param)) ELSE Undefined

\* the requested offset, negative or non-numeric values taken as 0
EffectiveOffset(u) ==
  LET n == Requested(u.query.offset)
  IN IF IsSet(n) /\ Val(n) > 0 THEN Val(n) ELSE 0

DefaultPageSize(u) ==
  IF u.res = "projects" THEN DEFAULT_PROJECT_PAGE_SIZE ELSE DEFAULT_FLAG_PAGE_SIZE

Served(r) == Done(r) /\ Result(r).ok

\* C6 - Pagination walk.  A client that starts at offset 0 and follows
\* nextOffset with the same limit and order until a result has none has
\* read, page after page, exactly the sorted collection: every item once,
\* in order.
C6_PaginationWalk ==
  (walk.active /\ walk.finished
     /\ EffectiveOffset([res |-> walk.res, pid |-> walk.pid, query |-> walk.query]) = 0)
  => LET k == KeyOf(walk)
         order == Coalesce(OptionsOf(walk).order,
                           IF walk.res = "projects" THEN "desc" ELSE "asc")
         data == Val(Entry(k)).data
     IN walk.acc = (IF walk.res = "projects" THEN SortProjects(data, order)
                    ELSE SortFeatureFlags(data, order))

\* flags [z, a] read with order=asc and limit=1: two pages, a then z
C6_Witness ==
  /\ walk.active /\ walk.finished /\ walk.res = "flags" /\ walk.pages = 2
  /\ walk.query = Query(Some(<<"1">>), Some(<<"a", "s", "c">>), Undefined)
  /\ Val(Entry("p1")).data = <<[name |-> "z", createdAt |-> Undefined],
                               [name |-> "a", createdAt |-> Undefined]>>
  /\ walk.acc = <<[name |-> "a", createdAt |-> Undefined],
                  [name |-> "z", createdAt |-> Undefined]>>

\* C7 - nextOffset rule.  In every view result nextOffset is present iff
\* offset + limit < total, and then it is offset + limit; a result whose
\* offset is at or past the total has no item and no nextOffset.
C7_NextOffsetRule ==
  \A r \in Readers :
    Served(r) =>
      LET v == Result(r)
      IN /\ IsSet(v.nextOffset) <=> (v.offset + v.limit < v.total)
         /\ IsSet(v.nextOffset) => Val(v.nextOffset) = v.offset + v.limit
         /\ v.offset >= v.total => (v.items = <<>> /\ ~IsSet(v.nextOffset))

\* a last page reached by following nextOffset whose limit goes past the
\* end of the collection
C7_Witness ==
  /\ walk.active /\ walk.pages >= 1 /\ Served("r1")
  /\ Result("r1").offset = Result("r1").limit * walk.pages
  /\ Result("r1").offset + Result("r1").limit > Result("r1").total
  /\ Result("r1").items # <<>>
  /\ ~IsSet(Result("r1").nextOffset)

\* C8 - Slice rule.  The items of every view result are the contiguous
\* range sorted[o : o + limit] of the sorted collection, o being the
\* requested offset with a negative or non-numeric value taken as 0: at
\* most limit items, the first one at position o.
C8_SliceRule ==
  \A r \in Readers :
    Served(r) =>
      LET v == Result(r)
          sorted == SortedOf(req[r], v)
          o == EffectiveOffset(req[r])
          n == Max(0, Min(Len(sorted), o + v.limit) - o)
      IN /\ Len(v.items) = n
         /\ Len(v.items) <= v.limit
         /\ \A i \in 1..n : v.items[i] = sorted[o + i]

\* a page from the middle of the collection: items before it and after it
C8_Witness ==
  \E r \in Readers :
    /\ Served(r) /\ EffectiveOffset(req[r]) = 1
    /\ Len(Result(r).items) = Result(r).limit
    /\ Result(r).total > 1 + Result(r).limit
    /\ Result(r).items[1] # SortedOf(req[r], Result(r))[1]

\* C9 - Non-positive limit.  A request whose limit is zero, negative or not
\* a finite number is served with the default page size (20 for projects,
\* 50 for flags): its result reports that limit and holds
\* min(default, total - offset) items, so never no item when there are
\* items at the requested offset.
InvalidLimit(u) ==
  /\ IsSet(u.query.limit)
  /\ LET n == Requested(u.query.limit) IN ~IsSet(n) \/ Val(n) <= 0

Dated(p) == IsSet(ParsedDate(p.createdAt))

\* C10 as stated: projects without a parseable createdAt come before all
\* dated projects when order = desc and after them when order = asc.
C10_AsStated ==
  \A r \in Readers :
    (Served(r) /\ req[r].res = "projects") =>
      LET v == Result(r)
      IN \A i, j \in 1..Len(v.items) :
           i < j =>
             /\ v.order = "desc" => ~(Dated(v.items[i]) /\ ~Dated(v.items[j]))
             /\ v.order = "asc" => ~(~Dated(v.items[i]) /\ Dated(v.items[j]))

\* C10 amended: projects without a parseable createdAt come after all dated
\* projects, when order = desc as well as when order = asc.
C10_UndatedLast ==
  \A r \in Readers :
    (Served(r) /\ req[r].res = "projects") =>
      LET v == Result(r)
      IN \A i, j \in 1..Len(v.items) :
           i < j => ~(~Dated(v.items[i]) /\ Dated(v.items[j]))

\* a descending view in which an undated project was listed first by the
\* remote and is shown after a dated one
C10_Witness ==
  \E r \in Readers :
    /\ Served(r) /\ req[r].res = "projects" /\ Result(r).order = "desc"
    /\ Len(Result(r).items) >= 2
    /\ ~Dated(Result(r).collection[1])
    /\ Dated(Result(r).items[1])
    /\ ~Dated(Result(r).items[Len(Result(r).items)])

\* C11 - Undated projects scenario.  The collection holds project a, which
\* has no creation date the sort can read (its createdAt is empty), and
\* project b, which has one; the whole collection is viewed (offset 0, a
\* limit of at least 2).
ScenarioA == [id |-> "a", name |-> "a", createdAt |-> Some("")]
ScenarioB == [id |-> "b", name |-> "b", createdAt |-> Some("1970-01-02")]

UndatedScenario(r) ==
  /\ Served(r) /\ req[r].res = "projects"
  /\ Result(r).collection \in {<<ScenarioA, ScenarioB>>, <<ScenarioB, ScenarioA>>}
  /\ Result(r).offset = 0 /\ Result(r).limit >= 2

IsPermutation(s, t) ==
  /\ Len(s) = Len(t)
  /\ \A i \in 1..Len(s) :
       Cardinality({j \in 1..Len(s) : s[j] = s[i]})
         = Cardinality({j \in 1..Len(t) : t[j] = s[i]})

\* x may stand before y in the requested direction, by a key given as numbers
InDirection(order, x, y) == IF order = "asc" THEN x <= y ELSE x >= y

\* C12 - Project ordering and tie-break.  In the sorted projects of a view,
\* two projects that both have a parseable createdAt stand in the order of
\* their dates in the requested direction (desc: the newer first); two with
\* the same date, and two that are both undated, stand in the order of their
\* names in the requested direction; and the sorted projects are a
\* permutation of the cached collection.
C12_ProjectOrder ==
  \A r \in Readers :
    (Served(r) /\ req[r].res = "projects") =>
      LET v == Result(r)
          sorted == SortedOf(req[r], v)
      IN /\ IsPermutation(v.collection, sorted)
         /\ \A i, j \in 1..Len(sorted) :
              i < j =>
                LET dateI == ParsedDate(sorted[i].createdAt)
                    dateJ == ParsedDate(sorted[j].createdAt)
                    byName == InDirection(v.order, NameRank(sorted[i].name),
                                          NameRank(sorted[j].name))
                IN /\ (IsSet(dateI) /\ IsSet(dateJ)) =>
                        /\ InDirection(v.order, Val(dateI), Val(dateJ))
                        /\ Val(dateI) = Val(dateJ) => byName
                   /\ (~IsSet(dateI) /\ ~IsSet(dateJ)) => byName

\* a descending view of three projects the remote lists in another order:
\* two of one date that the names decide, and a newer one
C12_Witness ==
  \E r \in Readers :
    /\ Served(r) /\ req[r].res = "projects" /\ Result(r).order = "desc"
    /\ Len(Result(r).items) = 3
    /\ Result(r).items # Result(r).collection
    /\ ParsedDate(Result(r).items[1].createdAt) = Some(172800000)
    /\ ParsedDate(Result(r).items[2].createdAt) = Some(86400000)
    /\ ParsedDate(Result(r).items[3].createdAt) = Some(86400000)
    /\ Result(r).items[2].name = "m" /\ Result(r).items[3].name = "b"
    /\ Result(r).collection[1].name = "b"

\* C13 - Flag ordering.  In the sorted flags of a view, two flags of
\* different names stand in the order of their names, alphabetical when
\* order = asc and reverse when order = desc, and the sorted flags are a
\* permutation of the cached flag list.
C13_FlagOrder ==
  \A r \in Readers :
    (Served(r) /\ req[r].res = "flags") =>
      LET v == Result(r)
          sorted == SortedOf(req[r], v)
      IN /\ IsPermutation(v.collection, sorted)
         /\ \A i, j \in 1..Len(sorted) :
              (i < j /\ sorted[i].name # sorted[j].name) =>
                IF v.order = "asc"
                  THEN NameRank(sorted[i].name) < NameRank(sorted[j].name)
                  ELSE NameRank(sorted[i].name) > NameRank(sorted[j].name)

\* a descending view that shows z before a, the remote listing a first
C13_Witness ==
  \E r \in Readers :
    /\ Served(r) /\ req[r].res = "flags" /\ Result(r).order = "desc"
    /\ Len(Result(r).items) >= 2
    /\ Result(r).collection[1].name = "a"
    /\ Result(r).items[1].name = "z"
    /\ Result(r).items[Len(Result(r).items)].name = "a"

\* C14 - Flag tie-break.
\* position of the one occurrence of x in s
PositionOf(s, x) == CHOOSE i \in 1..Len(s) : s[i] = x
OccursOnce(s, x) == Cardinality({i \in 1..Len(s) : s[i] = x}) = 1

\* two flags of one name whose dates do not decide between them: one of the
\* dates is missing or the dates are equal
Undecided(x, y) ==
  \/ ~IsSet(ParsedDate(x.createdAt))
  \/ ~IsSet(ParsedDate(y.createdAt))
  \/ ParsedDate(x.createdAt) = ParsedDate(y.createdAt)

\* x and y, two different entries of the list, stand in sorted as in flags
KeepOrder(flags, sorted, x, y) ==
  (PositionOf(flags, x) < PositionOf(flags, y))
    <=> (PositionOf(sorted, x) < PositionOf(sorted, y))

\* no name of the list is carried by a flag without a parseable createdAt
\* and also by two flags of different parseable dates
DatesComparable(flags) ==
  \A i, j, k \in 1..Len(flags) :
    ~ /\ flags[i].name = flags[j].name /\ flags[j].name = flags[k].name
      /\ ~IsSet(ParsedDate(flags[i].createdAt))
      /\ IsSet(ParsedDate(flags[j].createdAt))
      /\ IsSet(ParsedDate(flags[k].createdAt))
      /\ ParsedDate(flags[j].createdAt) # ParsedDate(flags[k].createdAt)

Normalized(options) ==
  [limit |-> IF IsSet(options.limit) /\ Val(options.limit) > 0
               THEN options.limit ELSE Undefined,
   order |-> options.order,
   offset |-> IF IsSet(options.offset) /\ Val(options.offset) >= 0
                THEN options.offset ELSE Undefined]

\* C15 - URI round-trip.  The URI buildFeatureFlagsUri builds for a
\* non-empty project id and a request is a flags URI and not a projects URI,
\* extractProjectIdFromFeatureUri gives back exactly the project id, and
\* parseFeatureFlagsResourceOptions gives the normalized request.
C15_RoundTrip ==
  codec.stage = "classified" =>
    /\ codec.isFeatureFlags
    /\ ~codec.isProjects
    /\ codec.extracted = Some(codec.projectId)
    /\ codec.parsed = Normalized(codec.options)

\* the id "/%" with limit 0, order desc and offset 12: the slash and the
\* percent sign are escaped in the URI and come back
C15_Witness ==
  /\ codec.stage = "classified"
  /\ codec.projectId = <<"/", "%">>
  /\ codec.options = [limit |-> Some(0), order |-> Some("desc"), offset |-> Some(12)]
  /\ StartsWith(codec.uri,
                PROJECTS_RESOURCE_URI \o <<"/", "%", "2", "F", "%", "2", "5">>
                  \o FeatureFlagsSegment \o <<"?">>)
  /\ codec.extracted = Some(<<"/", "%">>)
  /\ codec.parsed = [limit |-> Undefined, order |-> Some("desc"), offset |-> Some(12)]

\* C16 - URI classification and rejection.  A read is served as the
\* projects view exactly when its URI is 'unleash://projects' or starts
\* with 'unleash://projects?', as a flags view exactly when the URI matches
\* 'unleash://projects/<segment without slash>/feature-flags' with an
\* optional '?...' behind it; a read of any other URI ends at once in the
\* 'Unknown resource' error, and every read that is served as neither ends
\* in that error, issues no remote call and leaves both caches as they are.
C16_AsStated ==
  [][\A r \in Readers :
       StartsRead(r) =>
         LET s == uri'[r]
         IN /\ (req'[r].res = "projects") <=> IsProjectsUri(s)
            /\ (req'[r].res = "flags") <=> IsFeatureFlagsUri(s)
            /\ req'[r].res = "none" =>
                 /\ pc'[r] = "done"
                 /\ resp'[r] = Some(Failure(UnknownResource))
                 /\ fetches'[r] = 0
                 /\ UNCHANGED <<cachedProjects, cachedFeatureFlags>>]_vars

\* C17 - Option parsing.  Both option parsers return limit exactly when the
\* value of limit in the query parses as an integer above 0, and then that
\* integer, and offset exactly when the value of offset parses as an integer
\* of at least 0; a zero or negative limit, a negative offset and a value
\* that is no number leave the option unset.  order is returned as 'asc' or
\* 'desc' when the lower-cased value is one of the two, and is unset
\* otherwise.
IntegerOf(param) == IF IsSet(param) THEN ParseInt(Val(param)) ELSE Undefined

C17_OptionParsing ==
  codec.stage = "parsed" =>
    LET limit == IntegerOf(QueryOf(codec.uri).limit)
        offset == IntegerOf(QueryOf(codec.uri).offset)
        order == IF IsSet(QueryOf(codec.uri).order)
                   THEN ToLowerCase(Val(QueryOf(codec.uri).order)) ELSE <<>>
    IN /\ codec.parsed.limit =
            IF IsSet(limit) /\ Val(limit) > 0 THEN limit ELSE Undefined
       /\ codec.parsed.offset =
            IF IsSet(offset) /\ Val(offset) >= 0 THEN offset ELSE Undefined
       /\ codec.parsed.order =
            IF order = <<"a", "s", "c">> THEN Some("asc")
            ELSE IF order = <<"d", "e", "s", "c">> THEN Some("desc")
            ELSE Undefined

\* a zero limit is dropped while a zero offset is kept, a value with text
\* after its digits is read, and an order in capitals is normalised
C17_Witness ==
  /\ codec.stage = "parsed"
  /\ codec.raw.limit = Some(<<"0">>)
  /\ codec.raw.offset = Some(<<"0">>)
  /\ codec.raw.order = Some(<<"D", "E", "S", "C">>)
  /\ codec.parsed = [limit |-> Undefined, order |-> Some("desc"), offset |-> Some(0)]

\* C18 - URI build.  The uri of the result of a view holds a limit, order
\* or offset parameter only when the request set that option, and the uri
\* of a request without options is the bare identifier of the collection.
ParamsOfUri(s) ==
  IF IndexOf(s, "?") = 0 THEN <<>> ELSE URLSearchParams(SliceFrom(s, IndexOf(s, "?")))

ParamOf(s, name) == ParamsGet(ParamsOfUri(s), name)

IdentifierOf(u) ==
  IF u.res = "projects" THEN PROJECTS_RESOURCE_URI
  ELSE FlagsUriOf(EncodeURIComponent(ProjectIdChars(u.pid)))

C18_AsStated ==
  \A r \in Readers :
    (Done(r) /\ Result(r).ok) =>
      /\ IsSet(ParamOf(Result(r).uri, LimitName)) => IsSet(req[r].query.limit)
      /\ IsSet(ParamOf(Result(r).uri, OrderName)) => IsSet(req[r].query.order)
      /\ IsSet(ParamOf(Result(r).uri, OffsetName)) => IsSet(req[r].query.offset)
      /\ req[r].query = NoQuery => Result(r).uri = IdentifierOf(req[r])

\* C18 (amended) - The uri of the result of a view is the identifier of the
\* collection followed by a query.  The query always holds limit, set to
\* the effective limit of the result (the default page size when the
\* request set no valid limit); it holds order exactly when the request set
\* a valid order and offset exactly when the request set a valid offset,
\* each with the value the request set.  The build functions themselves
\* write the options they are given and no other.
C18_UriOfView ==
  \A r \in Readers :
    (Done(r) /\ Result(r).ok) =>
      LET options == OptionsOf(req[r])
          built == IF req[r].res = "projects" THEN BuildProjectsUri(options)
                   ELSE BuildFeatureFlagsUri(ProjectIdChars(req[r].pid), options)
          Written(n) == IF IsSet(n) THEN Some(NumberToString(Val(n))) ELSE Undefined
          Order(o) == IF IsSet(o) THEN Some(OrderChars(Val(o))) ELSE Undefined
      IN /\ BeforeQuery(Result(r).uri) = IdentifierOf(req[r])
         /\ ParamOf(Result(r).uri, LimitName) = Some(NumberToString(Result(r).limit))
         /\ ParamOf(Result(r).uri, OrderName) = Order(options.order)
         /\ ParamOf(Result(r).uri, OffsetName) = Written(options.offset)
         /\ Len(ParamsOfUri(Result(r).uri)) =
              1 + (IF IsSet(options.order) THEN 1 ELSE 0)
                + (IF IsSet(options.offset) THEN 1 ELSE 0)
         /\ BeforeQuery(built) = IdentifierOf(req[r])
         /\ ParamOf(built, LimitName) = Written(options.limit)
         /\ ParamOf(built, OrderName) = Order(options.order)
         /\ ParamOf(built, OffsetName) = Written(options.offset)
         /\ options = NoOptions => built = IdentifierOf(req[r])

\* a request without options is answered with the default limit in the uri
C18_Witness ==
  /\ Done("r1")
  /\ Result("r1").ok
  /\ req["r1"].res = "projects"
  /\ req["r1"].query = NoQuery
  /\ Result("r1").uri = PROJECTS_RESOURCE_URI \o <<"?", "l", "i", "m", "i", "t", "=", "2", "0">>

\* C19 - Defaults.  The result of a view reports as limit the limit of the
\* request, or 20 for projects and 50 for flags when the request has none,
\* as order the order of the request, or desc for projects and asc for
\* flags, and as offset the offset of the request, or 0; the page is cut
\* with these values.  It reports as total the size of the whole collection
\* whatever limit and offset are, and cached is true exactly when the read
\* was answered from the cache, without a call of the remote.
C19_Defaults ==
  \A r \in Readers :
    (Done(r) /\ Result(r).ok) =>
      LET options == OptionsOf(req[r])
          projects == req[r].res = "projects"
          whole == ListResult(req[r], RemoteBody(KeyOf(req[r])))
      IN /\ Result(r).limit =
              IF IsSet(options.limit) THEN Val(options.limit)
              ELSE IF projects THEN 20 ELSE 50
         /\ Result(r).order =
              IF IsSet(options.order) THEN Val(options.order)
              ELSE IF projects THEN "desc" ELSE "asc"
         /\ Result(r).offset = IF IsSet(options.offset) THEN Val(options.offset) ELSE 0
         /\ Result(r).total = Len(whole)
         /\ Len(Result(r).items) =
              Min(Result(r).limit, Max(0, Len(whole) - Result(r).offset))
         /\ Result(r).items =
              SubSeq(SortedOf(req[r], Result(r)), Result(r).offset + 1,
                     Result(r).offset + Len(Result(r).items))
         /\ Result(r).cached <=> fetches[r] = 0

\* a request without options for a collection of 21 projects
C19_Witness ==
  /\ Done("r1")
  /\ Result("r1").ok
  /\ req["r1"].res = "projects"
  /\ req["r1"].query = NoQuery
  /\ Result("r1").limit = 20
  /\ Result("r1").order = "desc"
  /\ Result("r1").offset = 0
  /\ Result("r1").total = 21
  /\ Len(Result("r1").items) = 20
  /\ ~Result("r1").cached

\* C20 - Lazy, key-local population.  The cache entry of a key changes only
\* in the step in which a fetch for exactly that key resolves with data,
\* and it becomes the data of that fetch; an entry, once there, is never
\* taken away; a key has an entry only if a fetch for it has succeeded; a
\* step of a read of one key leaves the entries of all other keys as they
\* are.  The key of a flags read is the project id of its URI, character
\* by character, the key of a projects read is the projects collection.
OwnKey(u) == IF u.res = "projects" THEN "projects" ELSE u.pid

FetchSucceeds(r, k) ==
  /\ pc[r] = "replied"
  /\ pc'[r] = "done"
  /\ OwnKey(req[r]) = k
  /\ Val(reply[r]).ok

C20_KeyLocal ==
  [][\A k \in Keys :
       /\ Entry(k)' # Entry(k) =>
            \E r \in Readers :
              /\ FetchSucceeds(r, k)
              /\ Entry(k)' = Some([data |-> ListResult(req[r], Val(reply[r]).body),
                                   fetchedAt |-> now[r]])
       /\ IsSet(Entry(k)) => IsSet(Entry(k)')
       /\ IsSet(Entry(k)') => IsSet(lastFetch'[k])
       /\ \A r \in Readers :
            (pc'[r] # pc[r] /\ OwnKey(req'[r]) # k /\ OwnKey(req[r]) # k)
              => Entry(k)' = Entry(k)]_vars

\* the flags of P1 have been fetched and stored while the fetch for p1 has
\* failed: p1 and the projects collection have no entry
C20_Witness ==
  /\ Done("r1")
  /\ req["r1"].pid = "P1"
  /\ Result("r1").ok
  /\ ~Result("r1").cached
  /\ cachedFeatureFlags["P1"] = Stored("r1")
  /\ pc["r2"] = "replied"
  /\ req["r2"].pid = "p1"
  /\ ~Val(reply["r2"]).ok
  /\ cachedFeatureFlags["p1"] = Undefined
  /\ cachedProjects = Undefined

\* C21 - Confidence classifier.  The level of a candidate is high exactly
\* when its score is at least 0.7, medium exactly when the score is at
\* least 0.4 and below 0.7, and low for every other score, also one outside
\* [0, 1] or no number at all: 0.7 is high, 0.6999 medium, 0.4 medium and
\* 0.39999 low.  The recommendation is use_existing for high, ask_user for
\* medium and create_new for low.
C21_Confidence ==
  (assess.detected /\ IsSet(assess.candidate)) =>
    LET score == Val(assess.candidate)
        level == assess.detection.confidenceLevel
        finite == score.kind = "finite"
    IN /\ level \in {"high", "medium", "low"}
       /\ level = "high" <=>
            \/ finite /\ 10 * score.val >= 7 * ScoreScale
            \/ score.kind = "Infinity"
       /\ level = "medium" <=>
            /\ finite
            /\ 10 * score.val >= 4 * ScoreScale
            /\ 10 * score.val < 7 * ScoreScale
       /\ score = Finite(70000) => level = "high"
       /\ score = Finite(69990) => level = "medium"
       /\ score = Finite(40000) => level = "medium"
       /\ score = Finite(39999) => level = "low"
       /\ level = "high" => assess.detection.recommendation = "use_existing"
       /\ level = "medium" => assess.detection.recommendation = "ask_user"
       /\ level = "low" => assess.detection.recommendation = "create_new"

\* the score 0.6999 has been classified: medium, ask_user
C21_Witness ==
  /\ assess.detected
  /\ assess.candidate = Some(Finite(69990))
  /\ assess.detection.confidenceLevel = "medium"
  /\ assess.detection.recommendation = "ask_user"

\* C22 - Risk classifier.  The risk level of a point total is critical
\* exactly from 5 points on, high exactly for 3 and 4 points, medium
\* exactly for 2 points and low exactly below 2 points, negative totals
\* included.
C22_Risk ==
  assess.rated =>
    LET points == assess.points.val
        level == assess.riskLevel
    IN /\ level = "critical" <=> points >= 5
       /\ level = "high" <=> (3 <= points /\ points < 5)
       /\ level = "medium" <=> (2 <= points /\ points < 3)
       /\ level = "low" <=> points < 2
       /\ points = 5 => level = "critical"
       /\ points = 4 => level = "high"
       /\ points = 2 => level = "medium"
       /\ points = 1 => level = "low"

\* a negative point total has been rated low
C22_Witness ==
  /\ assess.rated
  /\ assess.points = Finite(-1)
  /\ assess.riskLevel = "low"


\* ---------------------------------------------------------------------- C23
\* the request went wrong: the input failed the schema, no project id was
\* given and none is configured, the client operation failed, or the name
\* is not a tool of the handler
C23_WentWrong ==
  \/ call.via = "handler" /\ call.tool \notin HandlerTools
  \/ /\ call.tool \in HandlerTools \cup {"set_flag_rollout", "get_flag_state"}
     /\ \/ ~SchemaAccepts(call.tool, call.args)
        \/ /\ call.tool \in {"create_flag", "set_flag_rollout", "get_flag_state"}
           /\ ~NonEmptyString(call.args.projectId)
           /\ ~NonEmptyString(config.defaultProject)
        \/ call.response.thrown

\* C23: every tools/call request that goes wrong (schema validation
\* failure, missing project id with no default, upstream HTTP or network
\* failure, unknown tool name) ends with a returned result that has
\* isError = true and structuredContent.success = false, and no request at
\* all ends with an exception leaving the handler.
C23_ErrorsNormalized ==
  call.stage = "returned" =>
    /\ ~call.outcome.thrown
    /\ C23_WentWrong =>
         /\ call.outcome.result.isError
         /\ call.outcome.result.success = Some(FALSE)

\* a create_flag request through the handler whose HTTP request could not
\* be sent has returned its NETWORK_ERROR result
C23_Witness ==
  /\ call.stage = "returned"
  /\ call.via = "handler"
  /\ call.tool = "create_flag"
  /\ call.response = Threw(CustomError("NETWORK_ERROR"))
  /\ call.outcome.result = CallToolResult(TRUE, Some(FALSE), "NETWORK_ERROR")

\* ---------------------------------------------------------------------- C24
\* C24: with dryRun set no client operation issues an HTTP request, over
\* every sequence of tool calls and resource reads: the count of requests
\* stays at zero, a tool's client operation settles with the placeholder,
\* and a read that misses the cache gets the placeholder list.
C24_DryRunSafety ==
  config.dryRun =>
    /\ http = 0
    /\ call.stage = "settled" => call.dryRun /\ ~call.response.thrown
    /\ \A r \in Readers :
         pc[r] = "replied" =>
           /\ Val(reply[r]).ok
           /\ Val(reply[r]).body = DryRunList(KeyOf(req[r]))

\* with dryRun set, setFlexibleRolloutStrategy has settled with its
\* placeholder after a read of the projects missed the cache and stored the
\* placeholder list, and a read of feature flags that missed is answered
C24_Witness ==
  /\ config.dryRun
  /\ call.stage = "settled"
  /\ call.operation = "setFlexibleRolloutStrategy"
  /\ IsSet(cachedProjects)
  /\ pc["r1"] = "replied"
  /\ req["r1"].res = "flags"


\* ---------------------------------------------------------------------- C25
\* C25: for each collection key the fetchedAt of the cache entry never
\* decreases from one step to the next, whatever the interleaving of
\* overlapping reads and fetch completions.
C25_AsStated ==
  [][\A k \in Keys :
       IsSet(Entry(k)) /\ IsSet(Entry(k)') =>
         Val(Entry(k)').fetchedAt >= Val(Entry(k)).fetchedAt]_vars


\* ---------------------------------------------------------------------- C26
\* C26: when a read that missed the cache returns with data, the entry it
\* has just written is fresh at that instant: a read of the same key that
\* starts then finds "now - fetchedAt < TTL" and is served from the cache,
\* however long the fetch took.
C26_AsStated ==
  [][\A r \in Readers : \A k \in Keys :
       FetchSucceeds(r, k) =>
         /\ IsSet(Entry(k)')
         /\ clock' - Val(Entry(k)').fetchedAt < TtlOf(k)]_vars


\* ---------------------------------------------------------------------- C27
\* the offset the pagination starts from: the given offset or 0, not below 0
C27_EffectiveOffset == Max(0, Coalesce(paging.options.offset, 0))

\* C27: whenever the result of a read function carries nextOffset, it is
\* strictly greater than the effective offset of the request, for every
\* limit and offset given as numbers (so that following nextOffset comes to
\* an end).
C27_AsStated ==
  (IsSet(paging.result) /\ IsSet(Val(paging.result).nextOffset)) =>
    Val(Val(paging.result).nextOffset) > C27_EffectiveOffset

\* ---------------------------------------------------------------------- C30
\* the view of a collection under the options of the last read
C30_ViewOf(items) ==
  LET options == paging.options
      order == Coalesce(options.order, IF paging.res = "projects" THEN "desc" ELSE "asc")
      sorted == IF paging.res = "projects" THEN SortProjects(items, order)
                ELSE SortFeatureFlags(items, order)
      limit == Coalesce(options.limit,
                        IF paging.res = "projects" THEN DEFAULT_PROJECT_PAGE_SIZE
                        ELSE DEFAULT_FLAG_PAGE_SIZE)
  IN ApplyPagination(sorted, Some(limit), options.offset).slice

\* C30: after reads with any order, limit and offset the data of the cache
\* entry is, element for element and in the same order, what the last
\* successful fetch stored, and every view is computed from that collection.
C30_ViewsLeaveData ==
  IsSet(paging.result) =>
    /\ paging.data = paging.stored
    /\ Val(paging.result).collection = paging.stored
    /\ Val(paging.result).items = C30_ViewOf(paging.stored)

\* the flags were stored as [z, a]; after a first view a second one, with
\* order asc, limit 1 and offset 1, shows [z], and the entry still holds [z, a]
C30_Witness ==
  /\ paging.res = "flags"
  /\ paging.followed
  /\ paging.stored = <<[name |-> "z", createdAt |-> Undefined],
                       [name |-> "a", createdAt |-> Undefined]>>
  /\ paging.data = paging.stored
  /\ IsSet(paging.result)
  /\ Val(paging.result).order = "asc"
  /\ Val(paging.result).offset = 1
  /\ Val(paging.result).items = <<[name |-> "z", createdAt |-> Undefined]>>


\* ---------------------------------------------------------------------- C28
\* C28: for every URI a client has sent, if isFeatureFlagsUri is true then
\* extractProjectIdFromFeatureUri gives a defined, non-empty project id and
\* the read does not end in "Project ID missing from feature flags URI";
\* and isProjectsUri and isFeatureFlagsUri are not both true.
C28_AsStated ==
  \A r \in Readers :
    uri[r] # <<>> =>
      /\ IsFeatureFlagsUri(uri[r]) =>
           /\ IsSet(ExtractProjectIdFromFeatureUri(uri[r]))
           /\ Val(ExtractProjectIdFromFeatureUri(uri[r])) # <<>>
           /\ (Done(r) => Result(r).error # ProjectIdMissing)
      /\ ~(IsProjectsUri(uri[r]) /\ IsFeatureFlagsUri(uri[r]))


\* ---------------------------------------------------------------------- C29
\* the sign of a number
C29_Sign(n) == IF n < 0 THEN 0 - 1 ELSE IF n > 0 THEN 1 ELSE 0

\* C29: the comparison of sortFeatureFlags is a consistent ordering: for
\* any three flags, if a compares equal to b and b compares equal to c then
\* a compares equal to c, and compare(a, b) has the opposite sign of
\* compare(b, a).
C29_AsStated ==
  cmp.compared =>
    /\ (cmp.ab = 0 /\ cmp.bc = 0) => cmp.ac = 0
    /\ C29_Sign(cmp.ab) = 0 - C29_Sign(cmp.ba)


====
